---- MODULE Spec2Model ----
(***************************************************************************)
(* FILTRA: alias-map merging (filtra/configuration/alias_map.py) and       *)
(* entity normalization (filtra/ner/normalization.py).                     *)
(*                                                                         *)
(* A Python str is a sequence of one-character strings, so that strip,     *)
(* casefold, lower and the lexicographic order are computed and not        *)
(* assumed.  A dict is a function with a finite domain.                    *)
(***************************************************************************)
EXTENDS Integers, Sequences, FiniteSets, TLC

\* ------------------------------------------------------------------ bounds

\* Longest list of alias sources given to load_alias_map (default included).
MaxSources == 3
\* Most occurrences in one input collection.
MaxOcc == 3
\* Most calls of normalize_entities on one input collection.
MaxCalls == 2
MaxLoads == 3

\* ----------------------------------------------------------------- strings

UpperChars == <<"A","B","C","D","E","F","G","H","I","J","K","L","M",
                "N","O","P","Q","R","S","T","U","V","W","X","Y","Z">>
LowerChars == <<"a","b","c","d","e","f","g","h","i","j","k","l","m",
                "n","o","p","q","r","s","t","u","v","w","x","y","z">>
\* Punctuation and digits used by the model, in code point order, with their
\* code points.
OtherChars == <<" ", "'", "-", ".", "0", "1", "2", "3", "4", "5", "6", "7",
                "8", "9", ":", "<", ">">>
OtherCodes == <<32, 39, 45, 46, 48, 49, 50, 51, 52, 53, 54, 55, 56, 57, 58,
                60, 62>>

IndexIn(c, chars) == CHOOSE i \in 1..Len(chars) : chars[i] = c
IsIn(c, chars) == \E i \in 1..Len(chars) : chars[i] = c

\* ord(c), tabulated
CodePoints ==
    [c \in {UpperChars[i] : i \in 1..Len(UpperChars)}
           \cup {LowerChars[i] : i \in 1..Len(LowerChars)}
           \cup {OtherChars[i] : i \in 1..Len(OtherChars)} |->
        IF IsIn(c, UpperChars) THEN 64 + IndexIn(c, UpperChars)
        ELSE IF IsIn(c, LowerChars) THEN 96 + IndexIn(c, LowerChars)
        ELSE OtherCodes[IndexIn(c, OtherChars)]]
Ord(c) == CodePoints[c]

\* One character of str.lower() / str.casefold() (they agree on ASCII).
LowerTable ==
    [c \in {UpperChars[i] : i \in 1..Len(UpperChars)} |->
        LowerChars[IndexIn(c, UpperChars)]]
LowerChar(c) == IF c \in DOMAIN LowerTable THEN LowerTable[c] ELSE c

\* str.casefold()
RECURSIVE Casefold(_)
Casefold(s) == IF s = <<>> THEN <<>> ELSE <<LowerChar(Head(s))>> \o Casefold(Tail(s))

\* str.lower()
RECURSIVE Lower(_)
Lower(s) == IF s = <<>> THEN <<>> ELSE <<LowerChar(Head(s))>> \o Lower(Tail(s))

IsSpace(c) == c = " "

\* The positions and the elements of a sequence.
Idx(seq) == 1..Len(seq)
Elems(seq) == {seq[i] : i \in Idx(seq)}

\* str.strip(): drop leading and trailing whitespace.
Strip(s) ==
    LET keep == {i \in 1..Len(s) : ~IsSpace(s[i])}
    IN  IF keep = {} THEN <<>>
        ELSE LET lo == CHOOSE i \in keep : \A j \in keep : i <= j
                 hi == CHOOSE i \in keep : \A j \in keep : j <= i
             IN  SubSeq(s, lo, hi)

\* s < t in Python's order on str (lexicographic by code point).
StrLess(s, t) ==
    \E k \in 1..(Len(t)) :
        /\ \A j \in 1..(k - 1) : j <= Len(s) /\ s[j] = t[j]
        /\ \/ Len(s) = k - 1
           \/ Len(s) >= k /\ Ord(s[k]) < Ord(t[k])

\* ------------------------------------------------------------------- dicts

EmptyDict == << >>
Has(d, k) == k \in DOMAIN d
\* d[k] = v
Put(d, k, v) == [x \in (DOMAIN d) \cup {k} |-> IF x = k THEN v ELSE d[x]]

\* -------------------------------------------------- alias source documents

\* A YAML scalar: a string (t = "str", s its characters) or a non-string
\* such as an integer (t = "int").
Str(s) == [t |-> "str", s |-> s]
NonStr == [t |-> "int", s |-> <<>>]

\* The value of payload.get("aliases") / payload.get("locale_overrides"):
\* absent (None), a mapping with its entries in file order, or anything else.
Absent == [t |-> "none", entries |-> <<>>]
NotAMapping == [t |-> "other", entries |-> <<>>]
MappingOf(entries) == [t |-> "map", entries |-> entries]

\* The value of one canonical under `aliases`: None, a list, or anything else
\* (a plain string included).
NoAliases == [t |-> "none", items |-> <<>>]
NotAList == [t |-> "other", items |-> <<>>]
ListOf(items) == [t |-> "list", items |-> items]

AliasEntry(canonical_raw, aliases_raw) ==
    [canonical |-> canonical_raw, aliases |-> aliases_raw]
LocaleEntry(locale_raw, mapping) == [locale |-> locale_raw, mapping |-> mapping]
OverridePair(alias_raw, canonical_raw) ==
    [alias |-> alias_raw, canonical |-> canonical_raw]

\* One alias source: its path, whether the file can be read and parsed, the
\* shape of the YAML root and the two sections.
\*   file: "ok" | "missing" | "unreadable" | "invalid_yaml"
\*   root: "mapping" | "null" (an empty document: safe_load gives None) |
\*         "falsy" (a root that is no mapping and is falsy: [], 0, '',
\*         false) | "other" (a non-empty list, a non-zero scalar)
Source(path, file, root, aliases, locale_overrides) ==
    [path |-> path, file |-> file, root |-> root,
     aliases |-> aliases, locale_overrides |-> locale_overrides]
GoodSource(path, aliases, locale_overrides) ==
    Source(path, "ok", "mapping", aliases, locale_overrides)

\* ------------------------------------------------------------------ errors

\* InputValidationError: the kind of message and the values its f-string
\* embeds (<<>> / "" where the message has no such value).
Error(kind, label, canonical, previous, source, previous_source) ==
    [kind |-> kind, label |-> label, canonical |-> canonical,
     previous |-> previous, source |-> source,
     previous_source |-> previous_source]
NoError == Error("none", <<>>, <<>>, <<>>, "", "")
SimpleError(kind, source) == Error(kind, <<>>, <<>>, <<>>, source, "")

\* --------------------------------------------------------- load_alias_map

\* The local accumulators of load_alias_map, with the pending exception.
EmptyAcc ==
    [canonical_to_aliases |-> EmptyDict,
     alias_lookup |-> EmptyDict,
     locale_lookup |-> EmptyDict,
     resolved_sources |-> <<>>,
     canonical_registry |-> EmptyDict,
     alias_registry |-> EmptyDict,
     error |-> NoError]

Failed(st) == st.error.kind # "none"
Raise(st, err) == IF Failed(st) THEN st ELSE [st EXCEPT !.error = err]

\* _normalize_canonical: [ok, value, error]
NormalizeCanonical(value, source) ==
    IF value.t # "str"
    THEN [ok |-> FALSE, value |-> <<>>,
          error |-> SimpleError("canonical_not_string", source)]
    ELSE IF Strip(value.s) = <<>>
    THEN [ok |-> FALSE, value |-> <<>>,
          error |-> SimpleError("canonical_empty", source)]
    ELSE [ok |-> TRUE, value |-> Strip(value.s), error |-> NoError]

\* _normalize_alias: [ok, key, display, error]
NormalizeAlias(value, source, canonical) ==
    IF value.t # "str"
    THEN [ok |-> FALSE, key |-> <<>>, display |-> <<>>,
          error |-> Error("alias_not_string", <<>>, canonical, <<>>, source, "")]
    ELSE IF Strip(value.s) = <<>>
    THEN [ok |-> FALSE, key |-> <<>>, display |-> <<>>,
          error |-> Error("alias_empty", <<>>, canonical, <<>>, source, "")]
    ELSE [ok |-> TRUE, key |-> Casefold(Strip(value.s)),
          display |-> Strip(value.s), error |-> NoError]

\* _normalize_locale: [ok, value, error]
NormalizeLocale(value, source) ==
    IF value.t # "str"
    THEN [ok |-> FALSE, value |-> <<>>,
          error |-> SimpleError("locale_not_string", source)]
    ELSE IF Lower(Strip(value.s)) = <<>>
    THEN [ok |-> FALSE, value |-> <<>>,
          error |-> SimpleError("locale_empty", source)]
    ELSE [ok |-> TRUE, value |-> Lower(Strip(value.s)), error |-> NoError]

\* Mutant of _register_canonical: spellings compared after casefolding, so no
\* redeclaration is ever a conflict.
RegisterCanonicalFolded(st, canonical, source) ==
    IF Failed(st) THEN st
    ELSE [st EXCEPT !.canonical_registry =
            Put(@, Casefold(canonical), <<canonical, source>>)]

\* _register_canonical
RegisterCanonical(st, canonical, source) ==
    LET key == Casefold(canonical)
        registry == st.canonical_registry
    IN  IF Failed(st) THEN st
        ELSE IF Has(registry, key) /\ registry[key][1] # canonical
        THEN Raise(st, Error("canonical_conflict", <<>>, canonical,
                             registry[key][1], source, registry[key][2]))
        ELSE [st EXCEPT !.canonical_registry = Put(@, key, <<canonical, source>>)]

\* Mutant of _register_alias: the last declaration silently wins.
RegisterAliasLastWins(st, alias_key, canonical, source, display) ==
    IF Failed(st) THEN st
    ELSE [st EXCEPT !.alias_registry = Put(@, alias_key, <<canonical, source>>)]

\* Mutant of _register_alias: a key that is already registered is refused,
\* whatever it was registered for.
RegisterAliasOnce(st, alias_key, canonical, source, display) ==
    LET registry == st.alias_registry
    IN  IF Failed(st) THEN st
        ELSE IF Has(registry, alias_key)
        THEN Raise(st, Error("alias_conflict",
                             IF display # <<>> THEN display ELSE alias_key,
                             canonical, registry[alias_key][1], source,
                             registry[alias_key][2]))
        ELSE [st EXCEPT !.alias_registry = Put(@, alias_key, <<canonical, source>>)]

\* Mutant of _register_alias: a key keeps the canonical it was first
\* registered for and a later, different declaration is let through.
RegisterAliasKeepFirst(st, alias_key, canonical, source, display) ==
    IF Failed(st) \/ Has(st.alias_registry, alias_key) THEN st
    ELSE [st EXCEPT !.alias_registry = Put(@, alias_key, <<canonical, source>>)]

\* Mutant of _register_alias: nothing is registered and nothing refused.
RegisterAliasUnchecked(st, alias_key, canonical, source, display) == st

\* _register_alias
RegisterAlias(st, alias_key, canonical, source, display) ==
    LET registry == st.alias_registry
    IN  IF Failed(st) THEN st
        ELSE IF Has(registry, alias_key) /\ registry[alias_key][1] # canonical
        THEN Raise(st, Error("alias_conflict",
                             IF display # <<>> THEN display ELSE alias_key,
                             canonical, registry[alias_key][1], source,
                             registry[alias_key][2]))
        ELSE [st EXCEPT !.alias_registry = Put(@, alias_key, <<canonical, source>>)]

\* The global table left as it is.
SetAliasLookupSkipped(st, key, canonical) == st

\* alias_lookup[key] = canonical
SetAliasLookup(st, key, canonical) ==
    IF Failed(st) THEN st
    ELSE [st EXCEPT !.alias_lookup = Put(@, key, canonical)]

\* canonical_to_aliases.setdefault(canonical, set())
SetDefaultBucket(st, canonical) ==
    IF Failed(st) \/ Has(st.canonical_to_aliases, canonical) THEN st
    ELSE [st EXCEPT !.canonical_to_aliases = Put(@, canonical, {})]

\* canonical_to_aliases[canonical].add(display_alias)
AddToBucket(st, canonical, display_alias) ==
    IF Failed(st) THEN st
    ELSE [st EXCEPT !.canonical_to_aliases =
            Put(@, canonical, @[canonical] \cup {display_alias})]

\* One iteration of the alias loop of _apply_aliases (lines 214-218).
ApplyAlias(st, alias_raw, canonical, source) ==
    LET n == NormalizeAlias(alias_raw, source, canonical)
    IN  IF Failed(st) THEN st
        ELSE IF ~n.ok THEN Raise(st, n.error)
        ELSE AddToBucket(
                 SetAliasLookup(
                     RegisterAlias(st, n.key, canonical, source, n.display),
                     n.key, canonical),
                 canonical, n.display)

RECURSIVE ApplyAliasList(_, _, _, _)
ApplyAliasList(st, items, canonical, source) ==
    IF items = <<>> \/ Failed(st) THEN st
    ELSE ApplyAliasList(ApplyAlias(st, Head(items), canonical, source),
                        Tail(items), canonical, source)

\* One iteration of the canonical loop of _apply_aliases (lines 197-218).
ApplyAliasEntry(st, entry, source) ==
    LET n == NormalizeCanonical(entry.canonical, source)
        canonical == n.value
        canonical_key == Casefold(canonical)
        registered ==
            SetDefaultBucket(
                SetAliasLookup(
                    RegisterAlias(RegisterCanonical(st, canonical, source),
                                  canonical_key, canonical, source, canonical),
                    canonical_key, canonical),
                canonical)
    IN  IF Failed(st) THEN st
        ELSE IF ~n.ok THEN Raise(st, n.error)
        ELSE IF Failed(registered) \/ entry.aliases.t = "none" THEN registered
        ELSE IF entry.aliases.t # "list"
        THEN Raise(registered, Error("alias_list_not_sequence", <<>>, canonical,
                                     <<>>, source, ""))
        ELSE ApplyAliasList(registered, entry.aliases.items, canonical, source)

RECURSIVE ApplyAliasEntries(_, _, _)
ApplyAliasEntries(st, entries, source) ==
    IF entries = <<>> \/ Failed(st) THEN st
    ELSE ApplyAliasEntries(ApplyAliasEntry(st, Head(entries), source),
                           Tail(entries), source)

\* _apply_aliases
ApplyAliases(st, data, source) ==
    IF Failed(st) \/ data.t = "none" THEN st
    ELSE IF data.t # "map"
    THEN Raise(st, SimpleError("aliases_not_mapping", source))
    ELSE ApplyAliasEntries(st, data.entries, source)

\* locale_lookup.setdefault(locale, {})
SetDefaultLocale(st, locale) ==
    IF Failed(st) \/ Has(st.locale_lookup, locale) THEN st
    ELSE [st EXCEPT !.locale_lookup = Put(@, locale, EmptyDict)]

\* bucket[key] = canonical, bucket being locale_lookup[locale]
SetLocaleLookup(st, locale, key, canonical) ==
    IF Failed(st) THEN st
    ELSE [st EXCEPT !.locale_lookup = Put(@, locale, Put(@[locale], key, canonical))]

\* One iteration of the inner loop of _apply_locale_overrides (lines 249-259).
ApplyOverridePair(st, pair, locale, source) ==
    LET n == NormalizeCanonical(pair.canonical, source)
        canonical == n.value
        canonical_key == Casefold(canonical)
        registered ==
            RegisterAlias(RegisterCanonical(st, canonical, source),
                          canonical_key, canonical, source, canonical)
        a == NormalizeAlias(pair.alias, source, canonical)
    IN  IF Failed(st) THEN st
        ELSE IF ~n.ok THEN Raise(st, n.error)
        ELSE IF Failed(registered) THEN registered
        ELSE IF ~a.ok THEN Raise(registered, a.error)
        ELSE SetAliasLookup(
                 AddToBucket(
                     SetDefaultBucket(
                         SetLocaleLookup(
                             RegisterAlias(registered, a.key, canonical, source,
                                           a.display),
                             locale, a.key, canonical),
                         canonical),
                     canonical, a.display),
                 a.key, canonical)

RECURSIVE ApplyOverridePairs(_, _, _, _)
ApplyOverridePairs(st, pairs, locale, source) ==
    IF pairs = <<>> \/ Failed(st) THEN st
    ELSE ApplyOverridePairs(ApplyOverridePair(st, Head(pairs), locale, source),
                            Tail(pairs), locale, source)

\* One iteration of the locale loop of _apply_locale_overrides (lines 239-259).
ApplyLocaleEntry(st, entry, source) ==
    LET n == NormalizeLocale(entry.locale, source)
    IN  IF Failed(st) THEN st
        ELSE IF ~n.ok THEN Raise(st, n.error)
        ELSE IF entry.mapping.t # "map"
        THEN Raise(st, Error("locale_not_mapping", n.value, <<>>, <<>>, source, ""))
        ELSE ApplyOverridePairs(SetDefaultLocale(st, n.value),
                                entry.mapping.entries, n.value, source)

RECURSIVE ApplyLocaleEntries(_, _, _)
ApplyLocaleEntries(st, entries, source) ==
    IF entries = <<>> \/ Failed(st) THEN st
    ELSE ApplyLocaleEntries(ApplyLocaleEntry(st, Head(entries), source),
                            Tail(entries), source)

\* _apply_locale_overrides
ApplyLocaleOverrides(st, data, source) ==
    IF Failed(st) \/ data.t = "none" THEN st
    ELSE IF data.t # "map"
    THEN Raise(st, SimpleError("locale_overrides_not_mapping", source))
    ELSE ApplyLocaleEntries(st, data.entries, source)

\* _resolve_path: the file must exist.
ResolvePath(st, src) ==
    IF Failed(st) THEN st
    ELSE IF src.file = "missing" THEN Raise(st, SimpleError("missing_file", src.path))
    ELSE st

\* _load_yaml: [ok, aliases, locale_overrides, error].  `safe_load(...) or {}`
\* turns every falsy document (empty, [], 0, '', false) into an empty mapping.
LoadYaml(src) ==
    LET bad(kind) == [ok |-> FALSE, aliases |-> Absent, locale_overrides |-> Absent,
                      error |-> SimpleError(kind, src.path)]
    IN  IF src.file = "unreadable" THEN bad("unreadable")
        ELSE IF src.file = "invalid_yaml" THEN bad("invalid_yaml")
        ELSE IF src.root \in {"null", "falsy"}
        THEN [ok |-> TRUE, aliases |-> Absent, locale_overrides |-> Absent,
              error |-> NoError]
        ELSE IF src.root # "mapping" THEN bad("root_not_mapping")
        ELSE [ok |-> TRUE, aliases |-> src.aliases,
              locale_overrides |-> src.locale_overrides, error |-> NoError]

\* The body of the loop of load_alias_map over candidate_paths (lines 103-123).
MergeOne(st, src) ==
    LET resolved == ResolvePath(st, src)
        payload == LoadYaml(src)
        applied ==
            ApplyLocaleOverrides(
                ApplyAliases(resolved, payload.aliases, src.path),
                payload.locale_overrides, src.path)
    IN  IF Failed(resolved) THEN resolved
        ELSE IF ~payload.ok THEN Raise(resolved, payload.error)
        ELSE IF Failed(applied) THEN applied
        ELSE [applied EXCEPT !.resolved_sources = Append(@, src.path)]

RECURSIVE MergeAll(_, _)
MergeAll(st, paths) ==
    IF paths = <<>> \/ Failed(st) THEN st
    ELSE MergeAll(MergeOne(st, Head(paths)), Tail(paths))

\* sorted(values) for a set of strings
RECURSIVE SortedStrings(_)
SortedStrings(values) ==
    IF values = {} THEN <<>>
    ELSE LET least == CHOOSE v \in values : \A w \in values : ~StrLess(w, v)
         IN  <<least>> \o SortedStrings(values \ {least})

\* The AliasMap built at lines 125-133.
Snapshot(st) ==
    [canonical_to_aliases |->
        [c \in DOMAIN st.canonical_to_aliases |->
            SortedStrings(st.canonical_to_aliases[c])],
     alias_lookup |-> st.alias_lookup,
     locale_lookup |-> st.locale_lookup,
     sources |-> st.resolved_sources]

\* What a call of load_alias_map gives its caller: the AliasMap it returns
\* (`returned` holds it, and is empty when the call raised) or the
\* InputValidationError it raises.
ReturnOutcome(st) ==
    [returned |-> <<Snapshot(st)>>, error |-> NoError]
RaiseOutcome(st) ==
    [returned |-> <<>>, error |-> st.error]

\* load_alias_map, as a function of the candidate paths.
LoadAliasMap(paths) ==
    LET st == MergeAll(EmptyAcc, paths)
    IN  IF Failed(st) THEN RaiseOutcome(st) ELSE ReturnOutcome(st)

\* ------------------------------------------------- AliasMap.canonicalize

\* Optional[str]
None == [some |-> FALSE, s |-> <<>>]
Some(s) == [some |-> TRUE, s |-> s]

\* _normalize_language: None for None and for a blank hint.
NormalizeLanguage(language) ==
    IF ~language.some \/ language.s = <<>> THEN None
    ELSE IF Lower(Strip(language.s)) = <<>> THEN None
    ELSE Some(Lower(Strip(language.s)))

\* language.split("-", 1)[0]
BeforeHyphen(s) ==
    LET hyphens == {i \in Idx(s) : s[i] = "-"}
    IN  IF hyphens = {} THEN s
        ELSE SubSeq(s, 1, (CHOOSE i \in hyphens : \A j \in hyphens : i <= j) - 1)

\* Candidates that are the hint alone, whatever it holds.
LanguageCandidatesExact(language) ==
    IF ~language.some \/ language.s = <<>> THEN <<>> ELSE <<language.s>>

\* _language_candidates: the locale codes to try, in order.
LanguageCandidates(language) ==
    IF ~language.some \/ language.s = <<>> THEN <<>>
    ELSE IF \E i \in Idx(language.s) : language.s[i] = "-"
    THEN <<language.s, BeforeHyphen(language.s)>>
    ELSE <<language.s>>

\* f"'{value}'": a log line is the sequence of the fixed pieces of its
\* template (one element each) and the characters of the embedded values.
Quoted(value) == <<"'">> \o value \o <<"'">>

\* The first candidate whose locale table has the folded text (lines 56-58),
\* 0 when there is none.
LocaleHit(map, candidates, folded) ==
    LET hits == {i \in Idx(candidates) :
                    /\ Has(map.locale_lookup, candidates[i])
                    /\ Has(map.locale_lookup[candidates[i]], folded)}
    IN  IF hits = {} THEN 0 ELSE CHOOSE i \in hits : \A j \in hits : i <= j

\* An unmapped text returned in its casefolded form.
KeepUnmappedFolded(trimmed, folded, log) ==
    [text |-> folded,
     log |-> Append(log, <<"No alias mapping for ">> \o Quoted(trimmed)
                         \o <<"; using canonical key ">> \o Quoted(folded)
                         \o <<".">>)]

\* Lines 73-74: no table has the folded text.
KeepUnmapped(trimmed, folded, log) ==
    [text |-> trimmed,
     log |-> Append(log, <<"No alias mapping for ">> \o Quoted(trimmed)
                         \o <<"; using canonical key ">> \o Quoted(trimmed)
                         \o <<".">>)]

\* AliasMap.canonicalize: [text, log]
Canonicalize(map, text, language) ==
    LET trimmed == Strip(text)
        log1 == IF trimmed # text
                THEN <<<<"Trimmed whitespace: ">> \o Quoted(text) \o <<" -> ">>
                         \o Quoted(trimmed) \o <<".">>>>
                ELSE <<>>
        folded == Casefold(trimmed)
        log2 == IF folded # trimmed
                THEN Append(log1, <<"Casefolded ">> \o Quoted(trimmed) \o <<" -> ">>
                                      \o Quoted(folded) \o <<".">>)
                ELSE log1
        candidates == LanguageCandidates(NormalizeLanguage(language))
        hit == LocaleHit(map, candidates, folded)
    IN  IF trimmed = <<>>
        THEN [text |-> <<>>,
              log |-> Append(log1, <<"Discarded empty entity after trimming.">>)]
        ELSE IF hit # 0
        THEN LET canonical == map.locale_lookup[candidates[hit]][folded]
             IN  [text |-> canonical,
                  log |-> Append(log2, <<"Applied locale override ">>
                                 \o Quoted(candidates[hit]) \o <<": ">>
                                 \o Quoted(trimmed) \o <<" -> ">>
                                 \o Quoted(canonical) \o <<".">>)]
        ELSE IF Has(map.alias_lookup, folded) /\ map.alias_lookup[folded] # <<>>
        THEN LET canonical == map.alias_lookup[folded]
             IN  [text |-> canonical,
                  log |-> Append(log2,
                      IF canonical # trimmed
                      THEN <<"Mapped alias ">> \o Quoted(trimmed) \o <<" -> ">>
                               \o Quoted(canonical) \o <<".">>
                      ELSE <<"Confirmed canonical form ">> \o Quoted(canonical)
                               \o <<".">>)]
        ELSE KeepUnmapped(trimmed, folded, log2)

\* ------------------------------------------------------ normalize_entities

\* EntityOccurrence.__post_init__: the role and the display name are
\* stripped (the span and the context snippet of the model are already a pair
\* of integers and a str).
PostInit(occurrence) ==
    [occurrence EXCEPT !.document_role = Strip(@), !.document_display = Strip(@)]

\* EntityOccurrence.  A confidence is a number of hundredths.
Occurrence(raw_text, category, confidence, span, document_role, document_display, source_language, context_snippet, ingestion_index) ==
    PostInit(
    [raw_text |-> raw_text, canonical_text |-> raw_text, category |-> category,
     confidence |-> confidence, span |-> span, document_role |-> document_role,
     document_display |-> document_display, source_language |-> source_language,
     context_snippet |-> context_snippet, ingestion_index |-> ingestion_index])

\* A replacement that overwrites the raw text as well.
ReplaceBothTexts(occurrence, canonical_text) ==
    PostInit([occurrence EXCEPT !.canonical_text = canonical_text,
                                !.raw_text = canonical_text])

\* dataclasses.replace(occurrence, canonical_text=...): a new instance, so
\* __post_init__ runs again.
ReplaceCanonicalText(occurrence, canonical_text) ==
    PostInit([occurrence EXCEPT !.canonical_text = canonical_text])

\* ExtractedEntityCollection
Collection(occurrences, canonical_entities, language_profile, normalization_log) ==
    [occurrences |-> occurrences, canonical_entities |-> canonical_entities,
     language_profile |-> language_profile,
     normalization_log |-> normalization_log]

\* A language_profile: None, a str, or a mapping / an object whose primary,
\* language and code are YAML-like scalars (t = "none" when missing).
Missing == [t |-> "none", s |-> <<>>]
ProfileNone ==
    [t |-> "none", s |-> <<>>, primary |-> Missing, language |-> Missing,
     code |-> Missing]
ProfileStr(s) ==
    [t |-> "str", s |-> s, primary |-> Missing, language |-> Missing,
     code |-> Missing]
ProfileMapping(primary, language, code) ==
    [t |-> "mapping", s |-> <<>>, primary |-> primary, language |-> language,
     code |-> code]

ProfileObject(primary, language, code) ==
    [t |-> "object", s |-> <<>>, primary |-> primary, language |-> language,
     code |-> code]

\* The candidates with the language of the occurrence first and the hint last.
IterLanguageCandidatesEntityFirst(hint, profile, entity_language) ==
    <<entity_language>>
    \o (IF profile.t = "str" THEN <<Some(profile.s)>> ELSE <<>>)
    \o <<hint>>

\* _iter_language_candidates: the candidates, in order.
IterLanguageCandidates(hint, profile, entity_language) ==
    <<hint>>
    \o (IF profile.t = "str" THEN <<Some(profile.s)>>
        ELSE IF profile.t \in {"mapping", "object"}
        THEN IF profile.primary.t = "str" THEN <<Some(profile.primary.s)>>
             ELSE IF profile.language.t = "str" THEN <<Some(profile.language.s)>>
             ELSE IF profile.code.t = "str" THEN <<Some(profile.code.s)>>
             ELSE <<>>
        ELSE <<>>)
    \o <<entity_language>>

\* _resolve_language
ResolveLanguage(hint, profile, entity_language) ==
    LET candidates == IterLanguageCandidates(hint, profile, entity_language)
        usable == {i \in Idx(candidates) :
                      /\ candidates[i].some
                      /\ candidates[i].s # <<>>
                      /\ Lower(Strip(candidates[i].s)) # <<>>}
    IN  IF usable = {} THEN None
        ELSE Some(Lower(Strip(candidates[CHOOSE i \in usable :
                                             \A j \in usable : i <= j].s)))

\* sorted(seq, key=...): stable; less[<<i, j>>] says that the key of seq[i]
\* is below the key of seq[j].  The element at place r is the one with r - 1
\* elements before it.
StableSort(seq, less) ==
    LET rank(i) == Cardinality({j \in Idx(seq) :
                        \/ less[<<j, i>>]
                        \/ (~less[<<i, j>>] /\ j < i)}) + 1
    IN  SubSeq([r \in Idx(seq) |-> seq[CHOOSE i \in Idx(seq) : rank(i) = r]],
               1, Len(seq))

\* tuple(dict.fromkeys(seq)): the distinct elements in first-seen order.
RECURSIVE FromKeys(_)
FromKeys(seq) ==
    IF seq = <<>> THEN <<>>
    ELSE LET before == FromKeys(SubSeq(seq, 1, Len(seq) - 1))
             last == seq[Len(seq)]
         IN  IF \E i \in Idx(before) : before[i] = last THEN before
             ELSE Append(before, last)

\* str(n) for n >= 0
RECURSIVE IntToStr(_)
IntToStr(n) ==
    LET digit == <<"0", "1", "2", "3", "4", "5", "6", "7", "8", "9">>[(n % 10) + 1]
    IN  IF n < 10 THEN <<digit>> ELSE Append(IntToStr(n \div 10), digit)

\* hashlib.sha256(value).hexdigest()[:8], stood in for by a polynomial
\* checksum of the characters written as eight hexadecimal digits: like the
\* digest it is a fixed-length function of the value alone.
HexDigits == <<"0", "1", "2", "3", "4", "5", "6", "7", "8", "9",
               "a", "b", "c", "d", "e", "f">>
CodeOf(x) == IF x \in DOMAIN CodePoints THEN Ord(x) ELSE 1
RECURSIVE Checksum(_, _)
Checksum(h, value) ==
    IF value = <<>> THEN h
    ELSE Checksum((h * 31 + CodeOf(Head(value))) % 65521, Tail(value))
RECURSIVE Hex(_, _)
Hex(n, width) ==
    IF width = 0 THEN <<>>
    ELSE Append(Hex(n \div 16, width - 1), HexDigits[(n % 16) + 1])
Sha256Hex8(value) == Hex(Checksum(7, value), 8)

\* _mask_value
MaskValue(value) == <<"<redacted:">> \o Sha256Hex8(value) \o <<">">>

\* _QUOTED_VALUE_RE.sub over one entry: every '...' span, leftmost first,
\* becomes the quoted mask of what it holds.
RECURSIVE SanitizeEntry(_)
SanitizeEntry(entry) ==
    LET quotes == {i \in Idx(entry) : entry[i] = "'"}
        q1 == CHOOSE i \in quotes : \A j \in quotes : i <= j
        later == {i \in quotes : i > q1}
        q2 == CHOOSE i \in later : \A j \in later : i <= j
    IN  IF quotes = {} \/ later = {} THEN entry
        ELSE SubSeq(entry, 1, q1 - 1)
             \o Quoted(MaskValue(SubSeq(entry, q1 + 1, q2 - 1)))
             \o SanitizeEntry(SubSeq(entry, q2 + 1, Len(entry)))

\* _sanitize_log_entries
RECURSIVE SanitizeLogEntries(_)
SanitizeLogEntries(entries) ==
    IF entries = <<>> THEN <<>>
    ELSE <<SanitizeEntry(Head(entries))>> \o SanitizeLogEntries(Tail(entries))

\* _entity_descriptor
EntityDescriptor(category, text) == category \o <<":">> \o MaskValue(text)

\* An order on the ingestion index and the raw text, without the display name.
OccurrenceKeyLessNoDisplay(a, b) ==
    \/ a.ingestion_index < b.ingestion_index
    \/ /\ a.ingestion_index = b.ingestion_index
       /\ StrLess(Lower(a.raw_text), Lower(b.raw_text))

\* The sort key of lines 53-57, as a strict order.
OccurrenceKeyLess(a, b) ==
    \/ a.ingestion_index < b.ingestion_index
    \/ /\ a.ingestion_index = b.ingestion_index
       /\ \/ StrLess(Lower(a.document_display), Lower(b.document_display))
          \/ /\ Lower(a.document_display) = Lower(b.document_display)
             /\ StrLess(Lower(a.raw_text), Lower(b.raw_text))

\* An order on the category alone.
EntityKeyLessByCategory(a, b) == StrLess(a.category, b.category)

\* The sort key of line 82, as a strict order.
EntityKeyLess(a, b) ==
    \/ StrLess(a.category, b.category)
    \/ a.category = b.category /\ StrLess(Casefold(a.text), Casefold(b.text))

\* The sort key of lines 92-95, as a strict order.
IngestionLess(a, b) == a.ingestion_index < b.ingestion_index

\* A grouping key that keeps the case of the canonical text.
GroupKeyExactCase(occurrence) == <<occurrence.category, occurrence.canonical_text>>

\* Entities left in the order their groups were met.
KeptInGroupOrder(entities) == entities

\* Occurrences left in the order of the input.
KeptInArrivalOrder(occurrences) == occurrences

\* The sorts of lines 51-58, 82 and 92-95.
SortedByOccurrenceKey(occurrences) ==
    StableSort(occurrences,
        [p \in Idx(occurrences) \X Idx(occurrences) |->
            OccurrenceKeyLess(occurrences[p[1]], occurrences[p[2]])])
SortedByEntityKey(entities) ==
    StableSort(entities,
        [p \in Idx(entities) \X Idx(entities) |->
            EntityKeyLess(entities[p[1]], entities[p[2]])])
SortedByIngestion(occurrences) ==
    StableSort(occurrences,
        [p \in Idx(occurrences) \X Idx(occurrences) |->
            IngestionLess(occurrences[p[1]], occurrences[p[2]])])

\* The key an occurrence is grouped under (line 43).
GroupKey(occurrence) == <<occurrence.category, Casefold(occurrence.canonical_text)>>

\* The first of a tuple of numbers.
FirstNumber(numbers) == numbers[1]

\* max(...) of a non-empty tuple of numbers
RECURSIVE Max(_)
Max(numbers) ==
    IF Len(numbers) = 1 THEN numbers[1]
    ELSE LET rest == Max(Tail(numbers))
         IN  IF numbers[1] >= rest THEN numbers[1] ELSE rest

\* The raw texts, confidences, contexts and sources of a tuple of occurrences.
RECURSIVE RawTexts(_)
RawTexts(items) ==
    IF items = <<>> THEN <<>>
    ELSE <<Head(items).raw_text>> \o RawTexts(Tail(items))
RECURSIVE Confidences(_)
Confidences(items) ==
    IF items = <<>> THEN <<>>
    ELSE <<Head(items).confidence>> \o Confidences(Tail(items))
RECURSIVE ContextSnippets(_)
ContextSnippets(items) ==
    IF items = <<>> THEN <<>>
    ELSE <<Head(items).context_snippet>> \o ContextSnippets(Tail(items))
RECURSIVE SourceLabels(_)
SourceLabels(items) ==
    IF items = <<>> THEN <<>>
    ELSE <<Head(items).document_role \o <<":">> \o Head(items).document_display>>
         \o SourceLabels(Tail(items))

\* The locals of normalize_entities before its first loop (lines 20-23);
\* `grouped` is the dict as its items in insertion order.
NormalizerLocals(collection) ==
    [log |-> collection.normalization_log, grouped |-> <<>>,
     normalized_occurrences |-> <<>>, observed_documents |-> {},
     canonical_entities |-> <<>>]

\* grouped.setdefault(key, []).append(item)
GroupedAppend(grouped, key, item) ==
    IF \E g \in Idx(grouped) : grouped[g].key = key
    THEN LET g == CHOOSE h \in Idx(grouped) : grouped[h].key = key
         IN  [grouped EXCEPT ![g].occurrences = Append(@, item)]
    ELSE Append(grouped, [key |-> key, occurrences |-> <<item>>])

\* A pass of the loop that records the occurrence whatever its canonical text.
RecordOccurrenceKeepingEmpty(st, occurrence, step) ==
    [st EXCEPT
        !.log = st.log \o SanitizeLogEntries(step.log),
        !.grouped = GroupedAppend(@, GroupKey(ReplaceCanonicalText(occurrence, step.text)),
                                  ReplaceCanonicalText(occurrence, step.text)),
        !.normalized_occurrences = Append(@, ReplaceCanonicalText(occurrence, step.text)),
        !.observed_documents =
            @ \cup {<<Strip(occurrence.document_role), Strip(occurrence.document_display)>>}]

\* Lines 36-46 of one pass of the loop, `step` being what canonicalize
\* returned for the occurrence.
RecordOccurrence(st, occurrence, step) ==
    LET log == st.log \o SanitizeLogEntries(step.log)
        item == ReplaceCanonicalText(occurrence, step.text)
    IN  IF step.text = <<>>
        THEN [st EXCEPT !.log = Append(log,
                <<"Skipped occurrence with empty canonical text after normalization.">>)]
        ELSE [st EXCEPT
                !.log = log,
                !.grouped = GroupedAppend(@, GroupKey(item), item),
                !.normalized_occurrences = Append(@, item),
                !.observed_documents =
                    @ \cup {<<item.document_role, item.document_display>>}]

\* One pass of the loop of lines 25-46.
NormalizeOccurrence(st, occurrence, alias_map, language_hint, language_profile) ==
    RecordOccurrence(st, occurrence,
        Canonicalize(alias_map, occurrence.raw_text,
            ResolveLanguage(language_hint, language_profile,
                            occurrence.source_language)))

RECURSIVE NormalizeOccurrences(_, _, _, _, _)
NormalizeOccurrences(st, occurrences, alias_map, language_hint, language_profile) ==
    IF occurrences = <<>> THEN st
    ELSE NormalizeOccurrences(
             NormalizeOccurrence(st, Head(occurrences), alias_map, language_hint,
                                 language_profile),
             Tail(occurrences), alias_map, language_hint, language_profile)

\* An entity labelled by the occurrence its group met first, its aliases in
\* the order the group met them.
BuildEntityInArrivalOrder(st, category, occurrences) ==
    [st EXCEPT
        !.canonical_entities = Append(@,
            [text |-> occurrences[1].canonical_text,
             category |-> category,
             top_confidence |-> Max(Confidences(occurrences)),
             occurrence_count |-> Len(occurrences),
             occurrences |-> SortedByOccurrenceKey(occurrences),
             contexts |-> ContextSnippets(SortedByOccurrenceKey(occurrences)),
             sources |-> SourceLabels(SortedByOccurrenceKey(occurrences)),
             aliases |-> FromKeys(RawTexts(occurrences))])]

\* Lines 59-80 of one pass of the loop, `ordered` being the sorted group.
AppendEntity(st, category, ordered) ==
    LET canonical_label == ordered[1].canonical_text
        alias_values == FromKeys(RawTexts(ordered))
        descriptor == EntityDescriptor(category, canonical_label)
        entity == [text |-> canonical_label,
                   category |-> category,
                   top_confidence |-> Max(Confidences(ordered)),
                   occurrence_count |-> Len(ordered),
                   occurrences |-> ordered,
                   contexts |-> ContextSnippets(ordered),
                   sources |-> SourceLabels(ordered),
                   aliases |-> FromKeys(alias_values)]
    IN  [st EXCEPT
            !.log = IF Len(alias_values) > 1
                    THEN Append(@, <<"Merged ">> \o IntToStr(Len(alias_values))
                                   \o <<" aliases into ">> \o descriptor)
                    ELSE @,
            !.canonical_entities = Append(@, entity)]

\* One pass of the loop of lines 50-80, on one item of `grouped`.
BuildEntity(st, category, occurrences) ==
    AppendEntity(st, category, SortedByOccurrenceKey(occurrences))

RECURSIVE BuildEntities(_, _)
BuildEntities(st, items) ==
    IF items = <<>> THEN st
    ELSE BuildEntities(BuildEntity(st, Head(items).key[1], Head(items).occurrences),
                       Tail(items))

\* A summary line that counts the occurrences kept, not those given.
ReturnCollectionCountingKept(collection, st, canonical_entities) ==
    Collection(SortedByIngestion(st.normalized_occurrences),
               canonical_entities, collection.language_profile,
               Append(st.log,
                   <<"Normalized ">> \o IntToStr(Len(st.normalized_occurrences))
                   \o <<" occurrences to ">> \o IntToStr(Len(canonical_entities))
                   \o <<" canonical entities across ">>
                   \o IntToStr(Cardinality(st.observed_documents))
                   \o <<" documents.">>))

\* Lines 84-99: the summary line and the collection returned.
ReturnCollection(collection, st, canonical_entities) ==
    Collection(SortedByIngestion(st.normalized_occurrences),
               canonical_entities, collection.language_profile,
               Append(st.log,
                   <<"Normalized ">> \o IntToStr(Len(collection.occurrences))
                   \o <<" occurrences to ">> \o IntToStr(Len(canonical_entities))
                   \o <<" canonical entities across ">>
                   \o IntToStr(Cardinality(st.observed_documents))
                   \o <<" documents.">>))

\* Lines 82-99, after the loop of lines 50-80.
SortAndReturn(collection, st) ==
    ReturnCollection(collection, st, SortedByEntityKey(st.canonical_entities))

\* Lines 48-99, after the loop of lines 25-46.
BuildAndReturn(collection, st) ==
    SortAndReturn(collection, BuildEntities(st, st.grouped))

\* normalize_entities
NormalizeEntities(collection, alias_map, language_hint) ==
    BuildAndReturn(collection,
        NormalizeOccurrences(NormalizerLocals(collection), collection.occurrences,
                             alias_map, language_hint, collection.language_profile))

\* ------------------------------------------------------- the strings used

S_Python == <<"P","y","t","h","o","n">>
S_PYTHON == <<"P","Y","T","H","O","N">>
S_python == <<"p","y","t","h","o","n">>
S_PythonPadded == <<" ","P","y","t","h","o","n"," ">>
S_py == <<"p","y">>
S_PyTorch == <<"P","y","T","o","r","c","h">>
S_pytorch == <<"p","y","t","o","r","c","h">>
S_PyTorchPadded == <<" ","P","y","T","o","r","c","h"," ">>
S_torch == <<"t","o","r","c","h">>
S_ds == <<"d","s">>
S_DS == <<"D","S">>
S_DataScience == <<"D","a","t","a"," ","S","c","i","e","n","c","e">>
S_DataSystems == <<"D","a","t","a"," ","S","y","s","t","e","m","s">>
S_blank == <<" ">>
S_en == <<"e","n">>
S_EN == <<"E","N">>
S_fr == <<"f","r">>
S_enUS == <<"e","n","-","U","S">>
S_enUSPadded == <<" ","e","n","-","U","S"," ">>
S_enus == <<"e","n","-","u","s">>
S_skill == <<"s","k","i","l","l">>
S_company == <<"c","o","m","p","a","n","y">>
S_resume == <<"r","e","s","u","m","e">>
S_job == <<"j","o","b">>
S_ResumeDisplay == <<"R","e","s","u","m","e">>
S_jobDisplay == <<"j","o","b",".","p","d","f">>
S_context == <<"u","s","e","s"," ","i","t">>
S_OReilly == <<"O","'","R","e","i","l","l","y">>
S_Rust == <<"R","u","s","t">>

\* ------------------------------------------------- the alias sources tried

\* aliases: {Python: [python, py]}
SrcPython ==
    GoodSource("python.yaml",
        MappingOf(<<AliasEntry(Str(S_Python), ListOf(<<Str(S_python), Str(S_py)>>))>>),
        Absent)
\* aliases: {' Python ': [py]}: the same declarations, spelt with padding
SrcPythonAgain ==
    GoodSource("python-again.yaml",
        MappingOf(<<AliasEntry(Str(S_PythonPadded), ListOf(<<Str(S_py)>>))>>),
        Absent)
\* aliases: {PYTHON: null}: the canonical key of Python, spelt differently
SrcPythonUpper ==
    GoodSource("python-upper.yaml",
        MappingOf(<<AliasEntry(Str(S_PYTHON), NoAliases)>>), Absent)
\* aliases: {PyTorch: [python]}: an alias that is the key of Python
SrcTorchTakesPython ==
    GoodSource("torch-python.yaml",
        MappingOf(<<AliasEntry(Str(S_PyTorch), ListOf(<<Str(S_python)>>))>>),
        Absent)
\* aliases: {PyTorch: [torch, py]} then {python: null} in one file
SrcTorchThenLower ==
    GoodSource("torch-lower.yaml",
        MappingOf(<<AliasEntry(Str(S_PyTorch), ListOf(<<Str(S_torch), Str(S_py)>>)),
                    AliasEntry(Str(S_python), NoAliases)>>),
        Absent)
\* aliases: {Data Science: [ds]}
SrcDataScience ==
    GoodSource("data-science.yaml",
        MappingOf(<<AliasEntry(Str(S_DataScience), ListOf(<<Str(S_ds)>>))>>),
        Absent)
\* locale_overrides: {en: {ds: Data Systems}}
SrcEnDataSystems ==
    GoodSource("en-data-systems.yaml", Absent,
        MappingOf(<<LocaleEntry(Str(S_en),
            MappingOf(<<OverridePair(Str(S_ds), Str(S_DataSystems))>>))>>))
\* locale_overrides: {EN: {DS: Data Science}}
SrcEnDataScience ==
    GoodSource("en-data-science.yaml", Absent,
        MappingOf(<<LocaleEntry(Str(S_EN),
            MappingOf(<<OverridePair(Str(S_DS), Str(S_DataScience))>>))>>))
\* aliases: {PyTorch: [torch, '  ']}: a blank alias after a good one
SrcBlankAlias ==
    GoodSource("blank-alias.yaml",
        MappingOf(<<AliasEntry(Str(S_PyTorch), ListOf(<<Str(S_torch), Str(S_blank)>>))>>),
        Absent)
\* aliases: {PyTorch: [torch], 42: null}; locale_overrides: {en: {ds: Data Systems}}
SrcNonStringCanonical ==
    GoodSource("non-string-canonical.yaml",
        MappingOf(<<AliasEntry(Str(S_PyTorch), ListOf(<<Str(S_torch)>>)),
                    AliasEntry(NonStr, NoAliases)>>),
        MappingOf(<<LocaleEntry(Str(S_en),
            MappingOf(<<OverridePair(Str(S_ds), Str(S_DataSystems))>>))>>))
\* an empty document
SrcEmpty == Source("empty.yaml", "ok", "null", Absent, Absent)
\* a document whose root is the empty list []
SrcRootEmptyList == Source("root-empty-list.yaml", "ok", "falsy", Absent, Absent)

\* aliases: {Python: [py]}; locale_overrides: {en: {python: Python}}: a
\* locale table that holds the key of a canonical
SrcPythonEn ==
    GoodSource("python-en.yaml",
        MappingOf(<<AliasEntry(Str(S_Python), ListOf(<<Str(S_py)>>))>>),
        MappingOf(<<LocaleEntry(Str(S_en),
            MappingOf(<<OverridePair(Str(S_python), Str(S_Python))>>))>>))

\* aliases: {Python: [python]};
\* locale_overrides: {en-US: {py: Python}, en: {py: Python, torch: PyTorch}}:
\* a table for a region and one for its base language
SrcEnUsPython ==
    GoodSource("en-us-python.yaml",
        MappingOf(<<AliasEntry(Str(S_Python), ListOf(<<Str(S_python)>>))>>),
        MappingOf(<<LocaleEntry(Str(S_enUS),
                        MappingOf(<<OverridePair(Str(S_py), Str(S_Python))>>)),
                    LocaleEntry(Str(S_en),
                        MappingOf(<<OverridePair(Str(S_py), Str(S_Python)),
                                    OverridePair(Str(S_torch), Str(S_PyTorch))>>))>>))

\* The sources that only canonicalize is tried with.
CanonicalizerSources == {SrcPythonEn, SrcEnUsPython}

SourcePool ==
    {SrcPython, SrcPythonAgain, SrcPythonUpper, SrcTorchTakesPython,
     SrcTorchThenLower, SrcDataScience, SrcEnDataSystems, SrcEnDataScience,
     SrcBlankAlias, SrcNonStringCanonical, SrcEmpty, SrcRootEmptyList}

\* The paths of the pool and the file at each.
SourcePaths == {src.path : src \in SourcePool}
FileAt(path) == CHOOSE src \in SourcePool \cup CanonicalizerSources : src.path = path

\* Every list of 1..n paths of the pool: the default path first, then the
\* caller's extra_paths (lines 92-94).
SeqsUpTo(pool, n) == UNION {[1..k -> pool] : k \in 1..n}
PathLists == SeqsUpTo(SourcePaths, MaxSources)

\* ------------------------------------------------------------------- state

VARIABLES
    pc,               \* where the run is
    candidate_paths,  \* load_alias_map: the paths of the sources to merge, in order
    acc,              \* load_alias_map: its local accumulators
    outcome,          \* load_alias_map: what it returned or raised
    collection,       \* normalize_entities: the collection it is given
    language_hint,    \* normalize_entities: the hint it is given
    normalized,       \* what each call of normalize_entities returned, in order
    canonicalized,    \* AliasMap.canonicalize: the call made, with what it returned
    history,          \* load_alias_map: the earlier calls, with what each gave
    resolved,         \* _resolve_language: the candidates it was given
    run,              \* run_pipeline: the locals of the run
    health            \* perform_health_check: the locals of the check

vars == <<pc, candidate_paths, acc, outcome, collection, language_hint, normalized, canonicalized, history, resolved, run, health>>

ner == <<collection, language_hint, normalized>>

aside == <<history, resolved, run, health>>

\* No earlier call, no language resolved, no run and no health check.
Idle ==
    /\ history = <<>>
    /\ resolved = <<>>
    /\ run = <<>>
    /\ health = <<>>

NoOutcome == [returned |-> <<>>, error |-> NoError]

\* load_alias_map has been called with some list of sources and has set up
\* its accumulators (lines 92-101).
Init ==
    /\ pc = "merging"
    /\ candidate_paths \in PathLists
    /\ acc = EmptyAcc
    /\ outcome = NoOutcome
    /\ collection = Collection(<<>>, <<>>, ProfileNone, <<>>)
    /\ language_hint = None
    /\ normalized = <<>>
    /\ canonicalized = <<>>
    /\ Idle

\* The source the loop is at.
NextPath == FileAt(candidate_paths[Len(acc.resolved_sources) + 1])

\* One pass of the loop of lines 103-123 that ends normally.
MergeSource ==
    /\ pc = "merging"
    /\ Len(acc.resolved_sources) < Len(candidate_paths)
    /\ LET merged == MergeOne(acc, NextPath)
       IN  ~Failed(merged) /\ acc' = merged
    /\ UNCHANGED <<pc, candidate_paths, outcome, ner, canonicalized, aside>>

\* One pass of the loop that raises: the exception leaves load_alias_map.
MergeRaise ==
    /\ pc = "merging"
    /\ Len(acc.resolved_sources) < Len(candidate_paths)
    /\ LET merged == MergeOne(acc, NextPath)
       IN  Failed(merged) /\ acc' = merged /\ outcome' = RaiseOutcome(merged)
    /\ pc' = "raised"
    /\ UNCHANGED <<candidate_paths, ner, canonicalized, aside>>

\* The loop is over: build and return the AliasMap (lines 125-133).
ReturnAliasMap ==
    /\ pc = "merging"
    /\ Len(acc.resolved_sources) = Len(candidate_paths)
    /\ outcome' = ReturnOutcome(acc)
    /\ pc' = "returned"
    /\ UNCHANGED <<candidate_paths, acc, ner, canonicalized, aside>>

Next ==
    \/ MergeSource
    \/ MergeRaise
    \/ ReturnAliasMap

Spec == Init /\ [][Next]_vars

\* --------------------------------------------- the occurrences normalized

\* "PyTorch" in the resume, ingested first
OccPyTorch ==
    Occurrence(S_PyTorch, S_skill, 61, <<0, 7>>, S_resume, S_ResumeDisplay,
               Some(S_en), S_context, 0)
\* "pytorch" in the job description, ingested second
OccPytorchJob ==
    Occurrence(S_pytorch, S_skill, 74, <<4, 11>>, S_job, S_jobDisplay,
               Some(S_en), S_context, 1)
\* "pytorch" in the resume: the sort key of OccPyTorch
OccPytorchResume ==
    Occurrence(S_pytorch, S_skill, 30, <<9, 16>>, S_resume, S_ResumeDisplay,
               Some(S_en), <<>>, 0)
\* " PyTorch " in the resume, with the ingestion index of OccPytorchJob and
\* the highest confidence
OccPyTorchPadded ==
    Occurrence(S_PyTorchPadded, S_skill, 80, <<2, 11>>, S_resume, S_ResumeDisplay,
               None, S_context, 1)
\* "PyTorch" as a company
OccPyTorchCompany ==
    Occurrence(S_PyTorch, S_company, 61, <<0, 7>>, S_resume, S_ResumeDisplay,
               Some(S_en), S_context, 2)
\* a blank span
OccBlank ==
    Occurrence(S_blank, S_skill, 90, <<3, 4>>, S_job, S_jobDisplay,
               Some(S_en), <<>>, 3)
\* "py", an alias in some maps
OccPy ==
    Occurrence(S_py, S_skill, 50, <<5, 7>>, S_job, S_jobDisplay,
               None, S_context, 3)
\* "ds" in an English document
OccDs ==
    Occurrence(S_ds, S_skill, 40, <<1, 3>>, S_job, S_jobDisplay,
               Some(S_en), S_context, 2)

\* an empty span
OccEmpty ==
    Occurrence(<<>>, S_skill, 20, <<6, 6>>, S_resume, S_ResumeDisplay,
               Some(S_en), <<>>, 4)
\* "O'Reilly", a name with an apostrophe, as a company
OccOReilly ==
    Occurrence(S_OReilly, S_company, 85, <<8, 16>>, S_resume, S_ResumeDisplay,
               Some(S_en), S_context, 5)

OccurrencePool ==
    {OccPyTorch, OccPytorchJob, OccPytorchResume, OccPyTorchPadded,
     OccPyTorchCompany, OccBlank, OccPy, OccDs}

\* Occurrences whose raw text is empty, blank or holds a quote character.
EdgePool == {OccBlank, OccEmpty, OccOReilly}

\* The collections given: no occurrence, or every tuple of 1..MaxOcc
\* occurrences of one of the pools.
OccurrenceLists ==
    {<<>>} \cup SeqsUpTo(OccurrencePool, MaxOcc) \cup SeqsUpTo(EdgePool, MaxOcc)

\* The language hint and the language profile of a call.
LanguageInputs ==
    {[hint |-> None, profile |-> ProfileNone],
     [hint |-> Some(S_EN), profile |-> ProfileNone],
     [hint |-> None, profile |-> ProfileStr(S_fr)]}

\* A normalization_log the collection given already carries: one line that
\* quotes a value.
PriorLog == <<<<"Extracted ">> \o Quoted(S_PyTorch) \o <<" from the resume.">>>>

\* What a call is given besides the occurrences: the language inputs with no
\* log carried, or a carried log with no language input.
CallInputs ==
    {[hint |-> lang.hint, profile |-> lang.profile, normalization_log |-> <<>>] :
        lang \in LanguageInputs}
    \cup {[hint |-> None, profile |-> ProfileNone, normalization_log |-> PriorLog]}

\* The source lists whose alias map the occurrences are normalized with.
NormalizerPathLists ==
    {<<"empty.yaml">>, <<"torch-lower.yaml">>,
     <<"python.yaml", "en-data-systems.yaml">>}

\* ------------------------------------------------- the normalizer's state

\* load_alias_map has returned the alias map of one of the lists.
InitNormalize ==
    /\ pc = "returned"
    /\ candidate_paths \in NormalizerPathLists
    /\ acc = MergeAll(EmptyAcc, [i \in Idx(candidate_paths) |-> FileAt(candidate_paths[i])])
    /\ outcome = ReturnOutcome(acc)
    /\ collection = Collection(<<>>, <<>>, ProfileNone, <<>>)
    /\ language_hint = None
    /\ normalized = <<>>
    /\ canonicalized = <<>>
    /\ Idle

\* normalize_entities is called on the collection an extraction produced.
Normalize ==
    /\ pc = "returned"
    /\ \E occurrences \in OccurrenceLists, input \in CallInputs :
          LET given == Collection(occurrences, <<>>, input.profile,
                                  input.normalization_log)
          IN  /\ collection' = given
              /\ language_hint' = input.hint
              /\ normalized' = <<NormalizeEntities(given, outcome.returned[1], input.hint)>>
    /\ pc' = "normalized"
    /\ UNCHANGED <<candidate_paths, acc, outcome, canonicalized, aside>>

\* normalize_entities is called again on the same collection.
NormalizeAgain ==
    /\ pc = "normalized"
    /\ Len(normalized) < MaxCalls
    /\ normalized' = Append(normalized,
           NormalizeEntities(collection, outcome.returned[1], language_hint))
    /\ UNCHANGED <<pc, candidate_paths, acc, outcome, collection, language_hint, canonicalized, aside>>

NextNormalize ==
    \/ Normalize
    \/ NormalizeAgain

SpecNormalize == InitNormalize /\ [][NextNormalize]_vars

\* ------------------------------------------------ the canonicalizer's state

\* The texts canonicalized: the canonical spellings the sources declare, their
\* casefolded forms, aliases, padded, blank and empty texts, and a text no
\* source knows.
DeclaredSpellings ==
    {S_Python, S_PYTHON, S_python, S_PyTorch, S_DataScience, S_DataSystems}
Texts ==
    DeclaredSpellings
    \cup {Casefold(text) : text \in DeclaredSpellings}
    \cup {S_PythonPadded, S_py, S_torch, S_ds, S_DS, S_blank, <<>>, S_Rust}

\* The language hints given to canonicalize.
LanguageHints ==
    {None, Some(<<>>), Some(S_blank), Some(S_EN), Some(S_enUS), Some(S_enUSPadded),
     Some(S_fr)}

\* load_alias_map has returned the alias map of a list of sources that
\* merges.
InitCanonicalize ==
    /\ pc = "returned"
    /\ candidate_paths \in PathLists \cup {<<src.path>> : src \in CanonicalizerSources}
    /\ acc = MergeAll(EmptyAcc, [i \in Idx(candidate_paths) |-> FileAt(candidate_paths[i])])
    /\ ~Failed(acc)
    /\ outcome = ReturnOutcome(acc)
    /\ collection = Collection(<<>>, <<>>, ProfileNone, <<>>)
    /\ language_hint = None
    /\ normalized = <<>>
    /\ canonicalized = <<>>
    /\ Idle

\* AliasMap.canonicalize is called on the alias map.
CanonicalizeText ==
    /\ pc = "returned"
    /\ \E text \in Texts, language \in LanguageHints :
          canonicalized' =
              <<[text |-> text, language |-> language,
                 returned |-> Canonicalize(outcome.returned[1], text, language)]>>
    /\ pc' = "canonicalized"
    /\ UNCHANGED <<candidate_paths, acc, outcome, ner, aside>>

NextCanonicalize == CanonicalizeText

SpecCanonicalize == InitCanonicalize /\ [][NextCanonicalize]_vars

\* ------------------------------------------------ the language resolved

\* A value under a key of a profile: a string or something else.
StringValue(s) == [t |-> "str", s |-> s]
OtherValue == [t |-> "other", s |-> <<>>]

\* The hints, profiles and source languages _resolve_language is given:
\* missing, empty, blank, padded and upper-case ones, profiles that are a
\* string, a mapping or an object, with a first key that is missing, no
\* string, or a blank string.
HintInputs == {None, Some(<<>>), Some(S_blank), Some(S_EN), Some(S_enUSPadded)}
ProfileInputs ==
    {ProfileNone, ProfileStr(S_fr), ProfileStr(S_blank),
     ProfileMapping(StringValue(S_EN), StringValue(S_fr), Missing),
     ProfileMapping(OtherValue, StringValue(S_fr), Missing),
     ProfileMapping(StringValue(S_blank), StringValue(S_fr), Missing),
     ProfileMapping(Missing, Missing, StringValue(S_enUS)),
     ProfileMapping(Missing, OtherValue, Missing),
     ProfileObject(Missing, StringValue(S_fr), StringValue(S_en)),
     ProfileObject(Missing, Missing, Missing)}
EntityLanguageInputs == {None, Some(<<>>), Some(S_blank), Some(S_EN)}

\* load_alias_map has returned the alias map of en-data-systems.yaml.
InitResolve ==
    /\ pc = "returned"
    /\ candidate_paths = <<"en-data-systems.yaml">>
    /\ acc = MergeAll(EmptyAcc, <<FileAt("en-data-systems.yaml")>>)
    /\ outcome = ReturnOutcome(acc)
    /\ collection = Collection(<<>>, <<>>, ProfileNone, <<>>)
    /\ language_hint = None
    /\ normalized = <<>>
    /\ canonicalized = <<>>
    /\ Idle

\* Lines 26-34 of normalize_entities for an occurrence "ds": the language is
\* resolved and canonicalize is called with it.
ResolveAndCanonicalize ==
    /\ pc = "returned"
    /\ \E hint \in HintInputs, profile \in ProfileInputs,
          entity_language \in EntityLanguageInputs :
          /\ resolved' = <<[hint |-> hint, profile |-> profile,
                            entity_language |-> entity_language]>>
          /\ canonicalized' =
                <<[text |-> S_ds,
                   language |-> ResolveLanguage(hint, profile, entity_language),
                   returned |-> Canonicalize(outcome.returned[1], S_ds,
                                    ResolveLanguage(hint, profile, entity_language))]>>
    /\ pc' = "canonicalized"
    /\ UNCHANGED <<candidate_paths, acc, outcome, ner, history, run, health>>

NextResolve == ResolveAndCanonicalize

SpecResolve == InitResolve /\ [][NextResolve]_vars

\* ------------------------------------------- load_alias_map called again

\* The source lists load_alias_map is called with time after time: sources
\* that conflict with one another, and one that fails after it has registered
\* a canonical.
ReloadPaths ==
    {"python.yaml", "python-upper.yaml", "torch-python.yaml",
     "non-string-canonical.yaml", "en-data-systems.yaml"}
ReloadPathLists == SeqsUpTo(ReloadPaths, 2)

\* Accumulators that keep the tables and registries of the call before.
KeptAccumulators(previous) ==
    [previous EXCEPT !.resolved_sources = <<>>, !.error = NoError]

\* Lines 96-101: every call binds its accumulators to new, empty dicts and
\* lists, whatever the call before left in its own.
FreshAccumulators(previous) == EmptyAcc

InitReload ==
    /\ pc = "merging"
    /\ candidate_paths \in ReloadPathLists
    /\ acc = EmptyAcc
    /\ outcome = NoOutcome
    /\ collection = Collection(<<>>, <<>>, ProfileNone, <<>>)
    /\ language_hint = None
    /\ normalized = <<>>
    /\ canonicalized = <<>>
    /\ Idle

\* load_alias_map is called again, after a call that returned or raised.
LoadAgain ==
    /\ pc \in {"returned", "raised"}
    /\ Len(history) < MaxLoads - 1
    /\ history' = Append(history, [candidate_paths |-> candidate_paths,
                                    outcome |-> outcome])
    /\ candidate_paths' \in ReloadPathLists
    /\ acc' = FreshAccumulators(acc)
    /\ outcome' = NoOutcome
    /\ pc' = "merging"
    /\ UNCHANGED <<ner, canonicalized, resolved, run, health>>

NextReload ==
    \/ MergeSource
    \/ MergeRaise
    \/ ReturnAliasMap
    \/ LoadAgain

SpecReload == InitReload /\ [][NextReload]_vars

\* ------------------------------------------------------------ run_pipeline

\* ExitCode
SUCCESS == 0
UNEXPECTED_ERROR == 1
INVALID_INPUT == 2
PARSE_ERROR == 3
NER_ERROR == 4
LLM_ERROR == 5
TIMEOUT == 6

\* The classes an exception raised in a run can be of: FiltraError and its
\* five subclasses, and the built-in TimeoutError and other Exceptions.
DomainErrorTypes ==
    {"InputValidationError", "PdfExtractionError", "NERModelError",
     "LLMRequestError", "TimeoutExceededError"}
FiltraErrorTypes == DomainErrorTypes \cup {"FiltraError"}
ExceptionTypes == FiltraErrorTypes \cup {"TimeoutError", "TypeError"}

\* An exception: its class, and the message and the remediation it carries
\* (a line of text, <<>> when None or empty).
RaisedError(type, message, remediation) ==
    [type |-> type, message |-> message, remediation |-> remediation]

\* isinstance(error, error_type): the five subclasses derive from FiltraError
\* only.
IsInstance(type, error_type) ==
    \/ type = error_type
    \/ error_type = "FiltraError" /\ type \in FiltraErrorTypes
    \/ error_type = "Exception"

\* _ERROR_MAPPINGS
ErrorMapping(error_type, exit_code, message, remediation) ==
    [error_type |-> error_type, exit_code |-> exit_code, message |-> message,
     remediation |-> remediation]
ERROR_MAPPINGS ==
    <<ErrorMapping("InputValidationError", INVALID_INPUT,
          <<"Input validation failed.">>,
          <<"Double-check resume and job description paths and file permissions.">>),
      ErrorMapping("PdfExtractionError", PARSE_ERROR,
          <<"Failed to parse supplied documents.">>,
          <<"Ensure the resume and job description are readable PDFs or UTF-8 text.">>),
      ErrorMapping("NERModelError", NER_ERROR,
          <<"Entity extraction failed while loading the NER model.">>,
          <<"Clear the Hugging Face cache and rerun filtra warm-up to rebuild weights.">>),
      ErrorMapping("LLMRequestError", LLM_ERROR,
          <<"The language model gateway reported an error.">>,
          <<"Set the OPENROUTER_API_KEY environment variable and verify proxy configuration.">>),
      ErrorMapping("TimeoutExceededError", TIMEOUT,
          <<"Pipeline execution timed out.">>,
          <<"Retry with a stable network connection or increase the configured timeout.">>)>>

\* _map_error: the first mapping the error is an instance of.
MapError(error) ==
    LET hits == {i \in Idx(ERROR_MAPPINGS) :
                    IsInstance(error.type, ERROR_MAPPINGS[i].error_type)}
    IN  IF hits = {}
        THEN ErrorMapping("FiltraError", UNEXPECTED_ERROR,
                 <<"An unexpected error occurred during the evaluation run.">>,
                 <<"Enable debug logging and retry. If the issue persists, open a bug ticket with the logs.">>)
        ELSE ERROR_MAPPINGS[CHOOSE i \in hits : \A j \in hits : i <= j]

\* x or y, for lines of text
Or(x, y) == IF x # <<>> THEN x ELSE y

\* ExecutionOutcome; report holds the ReportEnvelope, and is empty when there
\* is none.
ExecutionOutcome(exit_code, status, message, remediation, report) ==
    [exit_code |-> exit_code, status |-> status, message |-> message,
     remediation |-> remediation, report |-> report]

\* handle_domain_error
HandleDomainError(error) ==
    ExecutionOutcome(MapError(error).exit_code, "failure",
                     Or(error.message, MapError(error).message),
                     Or(error.remediation, MapError(error).remediation), <<>>)

\* The except clauses of run_pipeline, in order: what the call returns for
\* an exception raised inside the try (nothing when it leaves the call).
Except(error) ==
    IF IsInstance(error.type, "TimeoutExceededError") THEN <<HandleDomainError(error)>>
    ELSE IF IsInstance(error.type, "FiltraError") THEN <<HandleDomainError(error)>>
    ELSE IF IsInstance(error.type, "TimeoutError")
    THEN <<HandleDomainError(
             RaisedError("TimeoutExceededError",
                 Or(error.message,
                    <<"Processing timed out while executing the pipeline.">>),
                 <<"Retry with a stable network connection or increase the configured timeout.">>))>>
    ELSE IF IsInstance(error.type, "Exception")
    THEN <<ExecutionOutcome(UNEXPECTED_ERROR, "failure",
               Or(error.message,
                  <<"An unexpected error occurred during the evaluation run.">>),
               <<"Re-run with --debug enabled and inspect logs for details before retrying.">>,
               <<>>)>>
    ELSE <<>>

\* The documents a run is given: a text file and a PDF.
S_job_description == <<"j","o","b","_","d","e","s","c","r","i","p","t","i","o","n">>
ResumePaths == {"resume.txt"}
JobPaths == {"jd.pdf"}
IsPdf(path) == path = "jd.pdf"

\* LoadedDocument, with the length of its text for the text.
LoadedDocument(path, chars, encoding) ==
    [path |-> path, display_name |-> <<path>>, chars |-> chars,
     display_encoding |-> encoding]

\* _load_document, when the file is read: extract_pdf_text or
\* load_text_document by the suffix.
LoadDocument(path) ==
    IF IsPdf(path) THEN LoadedDocument(path, 412, "UTF-8")
    ELSE LoadedDocument(path, 97, "Windows-1252")

\* _load_document, when the file is not read: what the loader of the suffix
\* raises.
LoadDocumentError(path) ==
    IF IsPdf(path)
    THEN RaisedError("PdfExtractionError", <<"Unable to parse the PDF ", path, ".">>, <<>>)
    ELSE RaisedError("InputValidationError", <<"Unable to read the file ", path, ".">>,
                <<"Verify file permissions and that the file is not locked by another process.">>)

\* The most occurrences an extraction gives for a document.
MaxExtracted == 2

\* What extract_entities gives for a document: no occurrence, or up to
\* MaxExtracted occurrences of the document, with the ingestion indices the
\* extractor assigned.
InRole(occurrence, role) == PostInit([occurrence EXCEPT !.document_role = role])
ResumeOccurrences ==
    {InRole(occ, S_resume) :
        occ \in {OccPyTorch, OccPytorchResume, OccPyTorchPadded}}
JobOccurrences ==
    {InRole(occ, S_job_description) : occ \in {OccPytorchJob, OccDs, OccPy}}
Extractions(role) ==
    {<<>>} \cup SeqsUpTo(IF role = S_resume THEN ResumeOccurrences ELSE JobOccurrences,
                         MaxExtracted)
ExtractedProfiles == {ProfileNone, ProfileStr(S_EN)}

\* What the extraction raises: NERModelError when the model cannot be loaded
\* or run, or a TypeError of _convert_predictions on a prediction whose
\* start is None.
ExtractionErrors ==
    {RaisedError("NERModelError", <<"Failed to execute the NER pipeline.">>,
            <<"Retry after verifying the model cache and proxy settings.">>),
     RaisedError("TypeError", <<"int() argument must be a string or a real number">>, <<>>)}

\* The alias sources a run is given.
RunPathLists ==
    {<<"python.yaml", "en-data-systems.yaml">>, <<"python.yaml", "torch-python.yaml">>,
     <<"non-string-canonical.yaml">>, <<"root-empty-list.yaml">>}

\* The locals of a run: the documents loaded, the collections extracted and,
\* once the run has ended, the ExecutionOutcome returned.
RunLocals(resume_path, jd_path) ==
    [resume_path |-> resume_path, jd_path |-> jd_path, documents |-> <<>>,
     per_document |-> <<>>, total_occurrences |-> 0, raised |-> <<>>,
     returned |-> <<>>]

\* Lines 211-214: the roles, in order.
DocumentRoles == <<S_resume, S_job_description>>

\* The occurrences as merged, with the indices they came with.
KeepIndexes(occurrences) == occurrences

\* Lines 248-251: the indices are assigned anew by enumeration.
ReassignIndexes(occurrences) ==
    [i \in Idx(occurrences) |->
        PostInit([occurrences[i] EXCEPT !.ingestion_index = i - 1])]

\* Lines 243-246: each document's occurrences sorted by ingestion_index, one
\* document after the other.
RECURSIVE MergeOccurrences(_)
MergeOccurrences(per_document) ==
    IF per_document = <<>> THEN <<>>
    ELSE StableSort(Head(per_document).occurrences,
             [p \in Idx(Head(per_document).occurrences)
                    \X Idx(Head(per_document).occurrences) |->
                 Head(per_document).occurrences[p[1]].ingestion_index
                     < Head(per_document).occurrences[p[2]].ingestion_index])
         \o MergeOccurrences(Tail(per_document))

\* Lines 231-232 and 253: the first language profile that is not None.
FirstProfile(per_document) ==
    LET given == {i \in Idx(per_document) : per_document[i].language_profile.t # "none"}
    IN  IF given = {} THEN ProfileNone
        ELSE per_document[CHOOSE i \in given : \A j \in given : i <= j].language_profile

\* Line 254
HintOf(language_profile) ==
    IF language_profile.t = "str" THEN Some(language_profile.s) ELSE None

\* Lines 256-260
MergedCollection(per_document) ==
    Collection(ReassignIndexes(MergeOccurrences(per_document)), <<>>,
               FirstProfile(per_document), <<>>)

\* sep.join(lines)
RECURSIVE Join(_, _)
Join(lines, sep) ==
    IF lines = <<>> THEN <<>>
    ELSE IF Len(lines) = 1 THEN lines[1]
    ELSE lines[1] \o <<sep>> \o Join(Tail(lines), sep)

\* sum(len(aliases) for aliases in canonical_to_aliases.values())
RECURSIVE AliasTotal(_, _)
AliasTotal(alias_map, canonicals) ==
    IF canonicals = {} THEN 0
    ELSE LET c == CHOOSE x \in canonicals : TRUE
         IN  Len(alias_map.canonical_to_aliases[c])
             + AliasTotal(alias_map, canonicals \ {c})

\* AliasMap.details
Details(alias_map) ==
    [sources |-> alias_map.sources,
     canonical_count |-> Cardinality(DOMAIN alias_map.canonical_to_aliases),
     alias_count |-> AliasTotal(alias_map, DOMAIN alias_map.canonical_to_aliases),
     locale_codes |-> SortedStrings(DOMAIN alias_map.locale_lookup)]

\* Lines 125-148: the summary.
Summary(documents, raw_count, result, details) ==
    <<<<"Resume ">> \o documents[1].display_name
          \o <<" decoded as ", documents[1].display_encoding, " (">>
          \o IntToStr(documents[1].chars) \o <<" characters).">>,
      <<"Job description ">> \o documents[2].display_name
          \o <<" decoded as ", documents[2].display_encoding, " (">>
          \o IntToStr(documents[2].chars) \o <<" characters).">>,
      <<"Extracted ">> \o IntToStr(raw_count)
          \o <<" entities using ", "model", " (cache ", "cache", ").">>,
      <<"Normalised ">> \o IntToStr(Len(result.canonical_entities))
          \o <<" canonical entities via ">> \o IntToStr(details.canonical_count)
          \o <<" alias groups (">> \o IntToStr(details.alias_count)
          \o <<" aliases; overrides: ">>
          \o Join(IF details.locale_codes = <<>> THEN <<<<"none">>>>
                  ELSE details.locale_codes, ", ")
          \o <<").">>,
      <<"Pipeline execution is not yet implemented in this scaffold.">>>>

\* Lines 150-160: the outcome of a run that raised nothing.
SuccessOutcome(documents, raw_count, result, details) ==
    ExecutionOutcome(SUCCESS, "success",
        Join(Summary(documents, raw_count, result, details), "\n"), <<>>,
        <<[canonical_entities |-> result.canonical_entities]>>)

\* run_pipeline is called with two documents and a list of alias sources.
InitRun ==
    /\ pc = "loading"
    /\ candidate_paths \in RunPathLists
    /\ acc = EmptyAcc
    /\ outcome = NoOutcome
    /\ collection = Collection(<<>>, <<>>, ProfileNone, <<>>)
    /\ language_hint = None
    /\ normalized = <<>>
    /\ canonicalized = <<>>
    /\ history = <<>>
    /\ resolved = <<>>
    /\ \E resume_path \in ResumePaths, jd_path \in JobPaths :
          run = <<RunLocals(resume_path, jd_path)>>
    /\ health = <<>>

\* The path of the document loaded next.
NextDocument ==
    IF run[1].documents = <<>> THEN run[1].resume_path ELSE run[1].jd_path

\* An exception raised inside the try ends the run with what the except
\* clauses return.
RunRaises(error) ==
    /\ run' = <<[run[1] EXCEPT !.raised = <<error>>, !.returned = Except(error)]>>
    /\ pc' = "ended"

\* Lines 94-95: a document is loaded.
LoadOneDocument ==
    /\ pc = "loading"
    /\ run' = <<[run[1] EXCEPT !.documents = Append(@, LoadDocument(NextDocument))]>>
    /\ pc' = IF Len(run[1].documents) = 1 THEN "extracting" ELSE "loading"
    /\ UNCHANGED <<candidate_paths, acc, outcome, ner, canonicalized, history, resolved, health>>

\* Lines 94-95: a document cannot be loaded.
LoadDocumentRaises ==
    /\ pc = "loading"
    /\ RunRaises(LoadDocumentError(NextDocument))
    /\ UNCHANGED <<candidate_paths, acc, outcome, ner, canonicalized, history, resolved, health>>

\* Lines 220-232: the entities of the next document are extracted.
ExtractDocument ==
    /\ pc = "extracting"
    /\ \E occurrences \in Extractions(DocumentRoles[Len(run[1].per_document) + 1]),
          profile \in ExtractedProfiles :
          run' = <<[run[1] EXCEPT
                      !.per_document =
                          Append(@, Collection(occurrences, <<>>, profile, <<>>)),
                      !.total_occurrences = @ + Len(occurrences)]>>
    /\ pc' = IF Len(run[1].per_document) = 1 THEN "merging occurrences"
             ELSE "extracting"
    /\ UNCHANGED <<candidate_paths, acc, outcome, ner, canonicalized, history, resolved, health>>

\* Lines 220-228: the extraction raises.
ExtractionRaises ==
    /\ pc = "extracting"
    /\ \E error \in ExtractionErrors : RunRaises(error)
    /\ UNCHANGED <<candidate_paths, acc, outcome, ner, canonicalized, history, resolved, health>>

\* Lines 243-260: the merged collection and the language hint.
MergeCollections ==
    /\ pc = "merging occurrences"
    /\ collection' = MergedCollection(run[1].per_document)
    /\ language_hint' = HintOf(FirstProfile(run[1].per_document))
    /\ pc' = "loading aliases"
    /\ UNCHANGED <<candidate_paths, acc, outcome, normalized, canonicalized, aside>>

\* The alias sources at the paths given.
AliasSources == [i \in Idx(candidate_paths) |-> FileAt(candidate_paths[i])]

\* Line 262: load_alias_map returns an AliasMap.
LoadAliases ==
    /\ pc = "loading aliases"
    /\ acc' = MergeAll(EmptyAcc, AliasSources)
    /\ ~Failed(acc')
    /\ outcome' = ReturnOutcome(acc')
    /\ pc' = "normalizing"
    /\ UNCHANGED <<candidate_paths, ner, canonicalized, aside>>

\* Line 262: load_alias_map raises InputValidationError; the kind of the
\* failure stands for its message and one line for the remediation each of
\* its errors carries.
LoadAliasesRaises ==
    /\ pc = "loading aliases"
    /\ acc' = MergeAll(EmptyAcc, AliasSources)
    /\ Failed(acc')
    /\ outcome' = RaiseOutcome(acc')
    /\ RunRaises(RaisedError("InputValidationError", <<acc'.error.kind>>,
                        <<"Review the alias map sources.">>))
    /\ UNCHANGED <<candidate_paths, ner, canonicalized, history, resolved, health>>

\* Line 274: normalize_entities
NormalizeMerged ==
    /\ pc = "normalizing"
    /\ normalized' = <<NormalizeEntities(collection, outcome.returned[1], language_hint)>>
    /\ pc' = "returning"
    /\ UNCHANGED <<candidate_paths, acc, outcome, collection, language_hint, canonicalized, aside>>

\* Lines 125-160: the run returns its report.
ReturnReport ==
    /\ pc = "returning"
    /\ run' = <<[run[1] EXCEPT !.returned =
                    <<SuccessOutcome(run[1].documents, run[1].total_occurrences,
                                     normalized[1], Details(outcome.returned[1]))>>]>>
    /\ pc' = "ended"
    /\ UNCHANGED <<candidate_paths, acc, outcome, ner, canonicalized, history, resolved, health>>

NextRun ==
    \/ LoadOneDocument
    \/ LoadDocumentRaises
    \/ ExtractDocument
    \/ ExtractionRaises
    \/ MergeCollections
    \/ LoadAliases
    \/ LoadAliasesRaises
    \/ NormalizeMerged
    \/ ReturnReport

SpecRun == InitRun /\ [][NextRun]_vars

\* --------------------------------------------------- perform_health_check

\* _MAX_ATTEMPTS
MAX_ATTEMPTS == 2

\* What os.getenv("OPENROUTER_API_KEY") gives: None, "" or a key.
ApiKeys == {None, Some(<<>>), Some(<<"k","e","y">>)}

\* timeout_seconds, in tenths of a second.
TimeoutSeconds == {10, 50, 300}

\* Line 56: max(1.0, timeout_seconds / _MAX_ATTEMPTS), in tenths of a second.
AttemptTimeout(timeout_seconds) ==
    IF timeout_seconds \div MAX_ATTEMPTS > 10 THEN timeout_seconds \div MAX_ATTEMPTS
    ELSE 10

\* The body of a response: no JSON, a JSON object with or without an "id",
\* or a JSON value that is no object (a list, null).
Body(t, id) == [t |-> t, id |-> id]
Bodies ==
    {Body("invalid", None), Body("object", None), Body("object", Some(<<"g","e","n">>)),
     Body("list", None), Body("null", None)}

\* What client.post gives: a response with its status, its x-request-id
\* header and its body, or an httpx.TimeoutException, or another
\* httpx.HTTPError (a connection or protocol error).
Response(status_code, request_id, body) ==
    [t |-> "response", status_code |-> status_code, request_id |-> request_id,
     body |-> body]
TimeoutException == [t |-> "TimeoutException", status_code |-> 0, request_id |-> None, body |-> Body("invalid", None)]
ConnectError == [t |-> "ConnectError", status_code |-> 0, request_id |-> None, body |-> Body("invalid", None)]
StatusCodes == {200, 399, 400, 503}
Replies ==
    {Response(status_code, request_id, body) :
        status_code \in StatusCodes, request_id \in {None, Some(<<"r","e","q">>)},
        body \in Bodies}
    \cup {TimeoutException, ConnectError}

\* LLMHealth; latency_seconds is the time measured, which the model leaves
\* at the time allowed for an attempt.
LLMHealth(endpoint, latency_seconds, request_id) ==
    [endpoint |-> endpoint, latency_seconds |-> latency_seconds,
     request_id |-> request_id]

\* The locals of a check, the replies its requests got, the sleeps it made,
\* and what it returned or raised once it has ended.
HealthLocals(api_key, timeout_seconds) ==
    [api_key |-> api_key, timeout_seconds |-> timeout_seconds, attempt |-> 1,
     replies |-> <<>>, slept |-> <<>>, returned |-> <<>>, raised |-> <<>>]

\* Lines 78-84: the request id of a response below 400, or the exception its
\* lookup raises: response.json() of a body that is no JSON is caught and
\* gives {}, body.get of a value that is no object raises AttributeError.
RequestIdRaises(reply) ==
    /\ ~reply.request_id.some
    /\ reply.body.t \notin {"invalid", "object"}
RequestId(reply) ==
    IF reply.request_id.some THEN reply.request_id
    ELSE IF reply.body.t = "object" THEN reply.body.id
    ELSE None

\* Lines 69-105: what an attempt raises for a reply, if anything.
AttemptRaised(reply, attempt) ==
    IF reply.t = "response"
    THEN IF reply.status_code >= 400
         THEN <<RaisedError("LLMRequestError",
                    <<"OpenRouter responded with status ">>
                        \o IntToStr(reply.status_code) \o <<" during warm-up.">>,
                    <<"Validate API key permissions or check https://status.openrouter.ai/.">>)>>
         ELSE IF RequestIdRaises(reply)
         THEN <<RaisedError("AttributeError", <<"object has no attribute 'get'">>, <<>>)>>
         ELSE <<>>
    ELSE IF reply.t = "TimeoutException"
    THEN <<RaisedError("TimeoutExceededError",
               <<"OpenRouter health check timed out within the warm-up window.">>,
               <<"Verify network connectivity and proxy access before rerunning warm-up.">>)>>
    ELSE IF attempt < MAX_ATTEMPTS THEN <<>>
    ELSE <<RaisedError("LLMRequestError",
               <<"Unable to reach OpenRouter during warm-up diagnostics.">>,
               <<"Review HTTPS_PROXY/HTTP_PROXY settings or retry with a stable connection.">>)>>

\* perform_health_check is called.
InitHealth ==
    /\ pc = "reading key"
    /\ candidate_paths = <<>>
    /\ acc = EmptyAcc
    /\ outcome = NoOutcome
    /\ collection = Collection(<<>>, <<>>, ProfileNone, <<>>)
    /\ language_hint = None
    /\ normalized = <<>>
    /\ canonicalized = <<>>
    /\ history = <<>>
    /\ resolved = <<>>
    /\ run = <<>>
    /\ \E api_key \in ApiKeys, timeout_seconds \in TimeoutSeconds :
          health = <<HealthLocals(api_key, timeout_seconds)>>

\* Lines 33-38: no key is configured.
MissingApiKey ==
    /\ pc = "reading key"
    /\ ~health[1].api_key.some \/ health[1].api_key.s = <<>>
    /\ health' = <<[health[1] EXCEPT !.raised =
           <<RaisedError("LLMRequestError",
                 <<"OPENROUTER_API_KEY is not configured for warm-up diagnostics.">>,
                 <<"Set OPENROUTER_API_KEY before running 'filtra warm-up'.">>)>>]>>
    /\ pc' = "ended"
    /\ UNCHANGED <<candidate_paths, acc, outcome, ner, canonicalized, history, resolved, run>>

\* Lines 33-59: a key is configured, and the loop is entered.
EnterLoop ==
    /\ pc = "reading key"
    /\ health[1].api_key.some /\ health[1].api_key.s # <<>>
    /\ pc' = "attempting"
    /\ UNCHANGED <<candidate_paths, acc, outcome, ner, canonicalized, aside>>

\* Lines 59-90: a request is answered below 400 and its request id is found.
AttemptReturns ==
    /\ pc = "attempting"
    /\ \E reply \in Replies :
          /\ reply.t = "response"
          /\ AttemptRaised(reply, health[1].attempt) = <<>>
          /\ health' = <<[health[1] EXCEPT
                !.replies = Append(@, reply),
                !.returned = <<LLMHealth("https://openrouter.ai/api/v1/chat/completions",
                                   AttemptTimeout(health[1].timeout_seconds),
                                   RequestId(reply))>>]>>
    /\ pc' = "ended"
    /\ UNCHANGED <<candidate_paths, acc, outcome, ner, canonicalized, history, resolved, run>>

\* Lines 59-105: a request ends the call with an exception.
AttemptRaises ==
    /\ pc = "attempting"
    /\ \E reply \in Replies :
          /\ AttemptRaised(reply, health[1].attempt) # <<>>
          /\ health' = <<[health[1] EXCEPT
                !.replies = Append(@, reply),
                !.raised = AttemptRaised(reply, health[1].attempt)]>>
    /\ pc' = "ended"
    /\ UNCHANGED <<candidate_paths, acc, outcome, ner, canonicalized, history, resolved, run>>

\* Lines 97-104: a request fails with an httpx.HTTPError that is no timeout
\* on an attempt before the last; the call sleeps and goes round the loop.
AttemptRetries ==
    /\ pc = "attempting"
    /\ health[1].attempt < MAX_ATTEMPTS
    /\ health' = <<[health[1] EXCEPT
          !.replies = Append(@, ConnectError),
          !.slept = Append(@, 5 * health[1].attempt),
          !.attempt = @ + 1]>>
    /\ UNCHANGED <<pc, candidate_paths, acc, outcome, ner, canonicalized, history, resolved, run>>

NextHealth ==
    \/ MissingApiKey
    \/ EnterLoop
    \/ AttemptReturns
    \/ AttemptRaises
    \/ AttemptRetries

SpecHealth == InitHealth /\ [][NextHealth]_vars

\* The call runs on: reading the environment and each turn of the loop end,
\* since every request is made under the timeout of line 63 and the only
\* wait is the sleep of line 103.
SpecHealthFair == SpecHealth /\ WF_vars(NextHealth)

\* ---------------------------------------- what a list of sources declares

IsText(v) == v.t = "str" /\ Strip(v.s) # <<>>

\* The sections a source's document has: none when the file cannot be read
\* or its root is no mapping.
Readable(src) == src.file = "ok" /\ src.root = "mapping"
AliasEntriesOf(src) ==
    IF Readable(src) /\ src.aliases.t = "map" THEN src.aliases.entries ELSE <<>>
LocaleEntriesOf(src) ==
    IF Readable(src) /\ src.locale_overrides.t = "map"
    THEN src.locale_overrides.entries ELSE <<>>
PairsOf(entry) == IF entry.mapping.t = "map" THEN entry.mapping.entries ELSE <<>>
ItemsOf(entry) == IF entry.aliases.t = "list" THEN entry.aliases.items ELSE <<>>

\* One declaration: the casefolded key, the trimmed display spelling of what
\* is declared, the trimmed canonical it is declared for, and the source.
Decl(key, display, canonical, path) ==
    [key |-> key, display |-> display, canonical |-> canonical, path |-> path]

\* The canonical declarations of one source: the keys of its `aliases`
\* section and the targets of its locale overrides, trimmed.
CanonicalDeclsOf(src) ==
    {Decl(Casefold(Strip(e.canonical.s)), Strip(e.canonical.s),
          Strip(e.canonical.s), src.path) :
        e \in {f \in Elems(AliasEntriesOf(src)) : IsText(f.canonical)}}
    \cup
    UNION {{Decl(Casefold(Strip(p.canonical.s)), Strip(p.canonical.s),
                 Strip(p.canonical.s), src.path) :
                p \in {q \in Elems(PairsOf(l)) : IsText(q.canonical)}} :
            l \in Elems(LocaleEntriesOf(src))}

\* The alias declarations of one source made by explicit aliases and by
\* locale-override aliases: casefolded alias key -> canonical.
ExplicitAliasDeclsOf(src) ==
    UNION {{Decl(Casefold(Strip(a.s)), Strip(a.s), Strip(e.canonical.s), src.path) :
                a \in {b \in Elems(ItemsOf(e)) : IsText(b)}} :
            e \in {f \in Elems(AliasEntriesOf(src)) : IsText(f.canonical)}}
    \cup
    UNION {{Decl(Casefold(Strip(p.alias.s)), Strip(p.alias.s),
                 Strip(p.canonical.s), src.path) :
                p \in {q \in Elems(PairsOf(l)) :
                          IsText(q.canonical) /\ IsText(q.alias)}} :
            l \in Elems(LocaleEntriesOf(src))}

\* Every alias declaration of one source, a canonical being its own alias.
AliasDeclsOf(src) == CanonicalDeclsOf(src) \cup ExplicitAliasDeclsOf(src)

CanonicalDecls(paths) == UNION {CanonicalDeclsOf(paths[i]) : i \in Idx(paths)}
AliasDecls(paths) == UNION {AliasDeclsOf(paths[i]) : i \in Idx(paths)}

\* Two declarations of one key with different canonical display forms.
Conflicting(d1, d2) == d1.key = d2.key /\ d1.canonical # d2.canonical
HasConflict(decls) == \E d1, d2 \in decls : Conflicting(d1, d2)

\* The source has the documented shape everywhere: a root mapping (or an
\* empty document) whose sections, where present, have the documented shapes.
WellFormed(src) ==
    /\ src.file = "ok"
    /\ src.root \in {"mapping", "null"}
    /\ src.root = "mapping" =>
        /\ src.aliases.t \in {"none", "map"}
        /\ src.locale_overrides.t \in {"none", "map"}
        /\ \A i \in Idx(AliasEntriesOf(src)) :
            LET e == AliasEntriesOf(src)[i]
            IN  /\ IsText(e.canonical)
                /\ e.aliases.t \in {"none", "list"}
                /\ \A j \in Idx(ItemsOf(e)) : IsText(ItemsOf(e)[j])
        /\ \A i \in Idx(LocaleEntriesOf(src)) :
            LET l == LocaleEntriesOf(src)[i]
            IN  /\ IsText(l.locale)
                /\ l.mapping.t = "map"
                /\ \A j \in Idx(PairsOf(l)) :
                    IsText(PairsOf(l)[j].alias) /\ IsText(PairsOf(l)[j].canonical)
AllWellFormed(paths) == \A i \in Idx(paths) : WellFormed(paths[i])

\* The sources load_alias_map was called with.
Sources == [i \in Idx(candidate_paths) |-> FileAt(candidate_paths[i])]

Finished == pc \in {"returned", "raised"}
Returned == pc = "returned"
Raised == pc = "raised"
TheMap == outcome.returned[1]

\* The error names a pair of conflicting declarations of `decls`: the alias
\* (or canonical) it quotes has their key, and it gives the canonical and
\* the source of each.
NamesConflictOf(err, decls) ==
    \E d1, d2 \in decls :
        /\ Conflicting(d1, d2)
        /\ err.canonical = d2.canonical /\ err.source = d2.path
        /\ err.previous = d1.canonical /\ err.previous_source = d1.path
        /\ err.kind = "alias_conflict" => Casefold(err.label) = d1.key
        /\ err.kind = "canonical_conflict" => err.label = <<>>

ConflictKinds == {"alias_conflict", "canonical_conflict"}

\* ------------------------------------------------------------------ claims

\* C1 as stated: load_alias_map returns an AliasMap only if no casefolded
\* alias key was declared with two different canonicals anywhere in the
\* list; a list with such a key always fails, with an error naming the
\* alias, both canonicals and both sources; in a returned AliasMap each key
\* maps to the single canonical declared for it and no two keys of
\* canonical_to_aliases share a casefolded form.
AliasLookupIsDeclared(map, decls) ==
    /\ \A k \in DOMAIN map.alias_lookup :
        /\ \E d \in decls : d.key = k
        /\ \A d \in decls : d.key = k => map.alias_lookup[k] = d.canonical
    /\ \A l \in DOMAIN map.locale_lookup : \A k \in DOMAIN map.locale_lookup[l] :
        /\ \E d \in decls : d.key = k
        /\ \A d \in decls : d.key = k => map.locale_lookup[l][k] = d.canonical
    /\ \A c1, c2 \in DOMAIN map.canonical_to_aliases :
        Casefold(c1) = Casefold(c2) => c1 = c2
C1_AsStated ==
    Finished =>
        /\ Returned => ~HasConflict(AliasDecls(Sources))
        /\ HasConflict(AliasDecls(Sources)) =>
            /\ Raised
            /\ outcome.error.kind \in ConflictKinds
            /\ NamesConflictOf(outcome.error, AliasDecls(Sources))
        /\ Returned => AliasLookupIsDeclared(TheMap, AliasDecls(Sources))

\* C1, amended: as stated, except that the error names the alias, both
\* canonicals and both sources only when the failure is a conflict, which it
\* is whenever every source of the list is well-formed; a malformed or
\* unreadable source met first is reported instead.
C1_AliasKeysUnique ==
    Finished =>
        /\ Returned => ~HasConflict(AliasDecls(Sources))
        /\ HasConflict(AliasDecls(Sources)) =>
            /\ Raised
            /\ AllWellFormed(Sources) => outcome.error.kind \in ConflictKinds
            /\ outcome.error.kind \in ConflictKinds =>
                NamesConflictOf(outcome.error, AliasDecls(Sources))
        /\ Returned => AliasLookupIsDeclared(TheMap, AliasDecls(Sources))

\* C1 witness: a merge of well-formed sources has failed on an alias that
\* two different sources assign to different canonicals.
C1_Witness ==
    /\ Raised
    /\ AllWellFormed(Sources)
    /\ outcome.error.kind = "alias_conflict"
    /\ outcome.error.source # outcome.error.previous_source
    /\ Casefold(outcome.error.label) # Casefold(outcome.error.canonical)

\* C2 as stated: whenever two canonical declarations have the same
\* casefolded key but different trimmed spellings, load_alias_map fails and
\* the error names both spellings and both sources.
C2_AsStated ==
    (Finished /\ HasConflict(CanonicalDecls(Sources))) =>
        /\ Raised
        /\ outcome.error.kind = "canonical_conflict"
        /\ NamesConflictOf(outcome.error, CanonicalDecls(Sources))

\* The list is well-formed and every alias key it declares twice with
\* different canonicals is the casefolded key of both.
OnlySpellingConflicts(paths) ==
    /\ AllWellFormed(paths)
    /\ \A d1, d2 \in AliasDecls(paths) :
        Conflicting(d1, d2) =>
            d1.key = Casefold(d1.canonical) /\ d2.key = Casefold(d2.canonical)

\* C2, amended: such a list always fails; the error is the canonical
\* conflict, naming both spellings and both sources, unless another fault
\* is met first, and it is that error whenever the list is well-formed and
\* has no other conflict.
C2_CanonicalSpellingConflict ==
    (Finished /\ HasConflict(CanonicalDecls(Sources))) =>
        /\ Raised
        /\ OnlySpellingConflicts(Sources) =>
            outcome.error.kind = "canonical_conflict"
        /\ outcome.error.kind = "canonical_conflict" =>
            NamesConflictOf(outcome.error, CanonicalDecls(Sources))

\* C2 witness: a merge has failed on a canonical that an earlier source
\* spells differently.
C2_Witness ==
    /\ Raised
    /\ outcome.error.kind = "canonical_conflict"
    /\ outcome.error.source # outcome.error.previous_source
    /\ outcome.error.canonical # outcome.error.previous
    /\ Casefold(outcome.error.canonical) = Casefold(outcome.error.previous)

\* Some source declares `alias` for `canonical` in its `aliases` section.
DeclaresGlobalAlias(paths, alias, canonical) ==
    \E i \in Idx(paths) : \E e \in Elems(AliasEntriesOf(paths[i])) :
        /\ e.canonical = Str(canonical)
        /\ \E a \in Elems(ItemsOf(e)) : a = Str(alias)
\* Some source declares the override `alias` -> `canonical` for `locale`.
DeclaresOverride(paths, locale, alias, canonical) ==
    \E i \in Idx(paths) : \E l \in Elems(LocaleEntriesOf(paths[i])) :
        /\ l.locale = Str(locale)
        /\ \E p \in Elems(PairsOf(l)) : p = OverridePair(Str(alias), Str(canonical))

\* C3: sources that declare the global alias "ds" -> "Data Science" and the
\* override en: "ds" -> "Data Systems" (well-formed, and with no other key
\* declared twice) merge into an AliasMap for which canonicalize("ds", "en")
\* is "Data Systems" and canonicalize("ds", "fr") is "Data Science".
C3_LocalePrecedence ==
    ( /\ Finished
      /\ AllWellFormed(Sources)
      /\ DeclaresGlobalAlias(Sources, S_ds, S_DataScience)
      /\ DeclaresOverride(Sources, S_en, S_ds, S_DataSystems)
      /\ \A d1, d2 \in AliasDecls(Sources) :
            Conflicting(d1, d2) => d1.key = S_ds ) =>
        /\ Returned
        /\ Canonicalize(TheMap, S_ds, Some(S_en)).text = S_DataSystems
        /\ Canonicalize(TheMap, S_ds, Some(S_fr)).text = S_DataScience

\* seq with x inserted after position j
InsertAt(seq, j, x) == SubSeq(seq, 1, j) \o <<x>> \o SubSeq(seq, j + 1, Len(seq))

SameTables(m1, m2) ==
    /\ m1.canonical_to_aliases = m2.canonical_to_aliases
    /\ m1.alias_lookup = m2.alias_lookup
    /\ m1.locale_lookup = m2.locale_lookup

\* The sources that declare again, identically, one entry of `src`: a
\* canonical alone, a canonical with one of its aliases, or one locale
\* override.
RedeclarationsOf(src) ==
    {GoodSource("redeclared.yaml", MappingOf(<<AliasEntry(e.canonical, NoAliases)>>),
                Absent) : e \in Elems(AliasEntriesOf(src))}
    \cup
    UNION {{GoodSource("redeclared.yaml",
                       MappingOf(<<AliasEntry(e.canonical, ListOf(<<a>>))>>), Absent) :
                a \in Elems(ItemsOf(e))} : e \in Elems(AliasEntriesOf(src))}
    \cup
    UNION {{GoodSource("redeclared.yaml", Absent,
                       MappingOf(<<LocaleEntry(l.locale, MappingOf(<<p>>))>>)) :
                p \in Elems(PairsOf(l))} : l \in Elems(LocaleEntriesOf(src))}

MergesTo(paths, map) ==
    LET o == LoadAliasMap(paths)
    IN  o.returned # <<>> /\ SameTables(o.returned[1], map)

\* C4: if a list merges successfully, the list with any of its sources
\* repeated at any place, or followed by a source that declares one of its
\* entries again identically, merges successfully too and yields the same
\* canonical_to_aliases, alias_lookup and locale_lookup.
C4_IdenticalRedeclaration ==
    Returned =>
        /\ \A i \in Idx(Sources) : \A j \in 0..Len(Sources) :
            MergesTo(InsertAt(Sources, j, Sources[i]), TheMap)
        /\ \A i \in Idx(Sources) : \A r \in RedeclarationsOf(Sources[i]) :
            MergesTo(Append(Sources, r), TheMap)

\* C4 witness: a list in which a later source declares again an alias and a
\* locale override of an earlier one has merged.
C4_Witness ==
    /\ Returned
    /\ \E i, j \in Idx(Sources) :
        /\ i < j
        /\ Sources[i].path # Sources[j].path
        /\ \E d1 \in ExplicitAliasDeclsOf(Sources[i]) :
           \E d2 \in ExplicitAliasDeclsOf(Sources[j]) :
              d1.key = d2.key /\ d1.canonical = d2.canonical
    /\ \E i, j \in Idx(Sources) :
        i < j /\ Sources[i] = Sources[j]
              /\ LocaleEntriesOf(Sources[i]) # <<>>

\* Every declaration of every source is in the map, and every source is
\* listed.
Complete(map, paths) ==
    /\ map.sources = [i \in Idx(paths) |-> paths[i].path]
    /\ \A d \in CanonicalDecls(paths) : d.canonical \in DOMAIN map.canonical_to_aliases
    /\ \A i \in Idx(paths) : \A d \in ExplicitAliasDeclsOf(paths[i]) :
        /\ Has(map.alias_lookup, d.key) /\ map.alias_lookup[d.key] = d.canonical
        /\ Has(map.canonical_to_aliases, d.canonical)
        /\ d.display \in Elems(map.canonical_to_aliases[d.canonical])

\* C5: if any source of the list is malformed or conflicts with an earlier
\* declaration, load_alias_map raises and returns no AliasMap; the outcome
\* is either a complete AliasMap covering every source or an error.
C5_NoPartialMap ==
    Finished =>
        /\ (~AllWellFormed(Sources) \/ HasConflict(AliasDecls(Sources)))
            => Raised
        /\ Raised => outcome.returned = <<>> /\ outcome.error # NoError
        /\ Returned => /\ outcome.error = NoError
                       /\ Len(outcome.returned) = 1
                       /\ Complete(TheMap, Sources)

\* ------------------------------------------------ what a call was given

\* The results of the calls made so far.
Results == Elems(normalized)

\* How often x occurs in seq.
Count(x, seq) == Cardinality({i \in Idx(seq) : seq[i] = x})

\* The occurrence as it was before normalization (pipeline.py line 206).
AsExtracted(occurrence) == [occurrence EXCEPT !.canonical_text = occurrence.raw_text]

\* The input occurrences that survive: those with a non-blank raw text.
SurvivingInput ==
    {i \in Idx(collection.occurrences) :
        Strip(collection.occurrences[i].raw_text) # <<>>}

SameGroup(a, b) ==
    /\ a.category = b.category
    /\ Casefold(a.canonical_text) = Casefold(b.canonical_text)

\* C6: in every result, the surviving occurrences are the input occurrences
\* with a non-blank raw text; each of them is in exactly one canonical entity,
\* as often as it survives; and two of them are in the same entity exactly
\* when they have the same category and canonical texts equal after
\* casefolding.
C6_GroupedByCategoryAndFoldedText ==
    \A result \in Results :
        LET entities == result.canonical_entities
            survivors == result.occurrences
        IN  /\ Len(survivors) = Cardinality(SurvivingInput)
            /\ \A i \in Idx(survivors) :
                  /\ Count(AsExtracted(survivors[i]), collection.occurrences) >= 1
                  /\ survivors[i].canonical_text # <<>>
                  /\ \E e \in Idx(entities) :
                        /\ Count(survivors[i], entities[e].occurrences)
                               = Count(survivors[i], survivors)
                        /\ \A f \in Idx(entities) :
                              f # e => Count(survivors[i], entities[f].occurrences) = 0
            /\ \A e \in Idx(entities) : \A i \in Idx(entities[e].occurrences) :
                  Count(entities[e].occurrences[i], survivors) >= 1
            /\ \A e, f \in Idx(entities) :
                  \A i \in Idx(entities[e].occurrences),
                     j \in Idx(entities[f].occurrences) :
                      (e = f) <=> SameGroup(entities[e].occurrences[i],
                                            entities[f].occurrences[j])

\* C6 witness: a result with an entity of two occurrences whose canonical
\* texts differ in case only and a second entity with the same folded text in
\* another category.
C6_Witness ==
    \E result \in Results :
        \E e, f \in Idx(result.canonical_entities) :
            LET a == result.canonical_entities[e]
                b == result.canonical_entities[f]
            IN  /\ a.category # b.category
                /\ Casefold(a.text) = Casefold(b.text)
                /\ Len(a.occurrences) = 2
                /\ a.occurrences[1].canonical_text # a.occurrences[2].canonical_text

\* The first position of x in seq.
FirstAt(x, seq) == CHOOSE i \in Idx(seq) : seq[i] = x /\ \A j \in 1..(i - 1) : seq[j] # x

\* C7: every canonical entity's text is the canonical_text of the first of
\* its occurrences, and its aliases are the distinct raw_text values of its
\* occurrences in the order they first appear there; and the occurrences
\* ("PyTorch", skill, 0.61, resume), ("pytorch", skill, 0.74, job), given in
\* that order, normalize to exactly one entity with text "PyTorch", category
\* skill, occurrence_count 2, top_confidence 0.74 and aliases
\* ("PyTorch", "pytorch").
C7_TextAndAliasesFollowSortedOrder ==
    /\ \A result \in Results :
          \A e \in Idx(result.canonical_entities) :
              LET entity == result.canonical_entities[e]
                  raw == [i \in Idx(entity.occurrences) |->
                             entity.occurrences[i].raw_text]
              IN  /\ entity.text = entity.occurrences[1].canonical_text
                  /\ Elems(entity.aliases) = Elems(raw)
                  /\ \A i, j \in Idx(entity.aliases) :
                        i < j => FirstAt(entity.aliases[i], raw)
                                     < FirstAt(entity.aliases[j], raw)
    /\ \A lang \in LanguageInputs :
          LET result == NormalizeEntities(
                            Collection(<<OccPyTorch, OccPytorchJob>>, <<>>,
                                       lang.profile, <<>>),
                            TheMap, lang.hint)
          IN  /\ Len(result.canonical_entities) = 1
              /\ result.canonical_entities[1].text = S_PyTorch
              /\ result.canonical_entities[1].category = S_skill
              /\ result.canonical_entities[1].occurrence_count = 2
              /\ result.canonical_entities[1].top_confidence = 74
              /\ result.canonical_entities[1].aliases = <<S_PyTorch, S_pytorch>>

\* C7 witness: with no alias declared, an entity of three occurrences that
\* arrived in another order than the sorted one, with canonical texts that
\* differ and fewer aliases than occurrences.
C7_Witness ==
    \E result \in Results :
        \E e \in Idx(result.canonical_entities) :
            LET entity == result.canonical_entities[e]
            IN  /\ Len(entity.occurrences) = 3
                /\ Len(entity.aliases) = 2
                /\ entity.text # entity.occurrences[3].canonical_text
                /\ AsExtracted(entity.occurrences[1]) # collection.occurrences[1]
                /\ candidate_paths = <<"empty.yaml">>

\* C8: for every canonical entity, occurrence_count = len(occurrences) =
\* len(contexts) = len(sources) >= 1, top_confidence is the greatest
\* confidence of its occurrences, and contexts[i] and sources[i] are the
\* context_snippet and the "role:display" string of occurrences[i].
C8_EntityFieldsMirrorOccurrences ==
    \A result \in Results :
        \A e \in Idx(result.canonical_entities) :
            LET entity == result.canonical_entities[e]
                members == entity.occurrences
            IN  /\ entity.occurrence_count = Len(members)
                /\ Len(entity.contexts) = Len(members)
                /\ Len(entity.sources) = Len(members)
                /\ Len(members) >= 1
                /\ \E i \in Idx(members) : members[i].confidence = entity.top_confidence
                /\ \A i \in Idx(members) : members[i].confidence <= entity.top_confidence
                /\ \A i \in Idx(members) :
                      /\ entity.contexts[i] = members[i].context_snippet
                      /\ entity.sources[i] =
                             members[i].document_role \o <<":">>
                                 \o members[i].document_display

\* C8 witness: an entity with two occurrences of one document, hence a
\* repeated source, whose first occurrence is not the most confident.
C8_Witness ==
    \E result \in Results :
        \E e \in Idx(result.canonical_entities) :
            LET entity == result.canonical_entities[e]
            IN  /\ Len(entity.sources) >= 2
                /\ entity.sources[1] = entity.sources[2]
                /\ entity.contexts[1] # entity.contexts[2]
                /\ entity.occurrences[1].confidence < entity.top_confidence

\* The order of C9 on two occurrences: by ingestion_index, then by lowered
\* display name, then by lowered raw text.
Before(a, b) ==
    LET da == Lower(a.document_display)
        db == Lower(b.document_display)
        ra == Lower(a.raw_text)
        rb == Lower(b.raw_text)
    IN  IF a.ingestion_index # b.ingestion_index
        THEN a.ingestion_index < b.ingestion_index
        ELSE IF da # db THEN StrLess(da, db)
        ELSE ra # rb /\ StrLess(ra, rb)

\* C9: within every canonical entity no occurrence comes after one it is
\* before in that order, so two occurrences with equal ingestion_index and
\* different display names stand in the order of their display names
\* whatever their input order.
C9_OrderedWithinEntity ==
    \A result \in Results :
        \A e \in Idx(result.canonical_entities) :
            LET members == result.canonical_entities[e].occurrences
            IN  \A i, j \in Idx(members) :
                    /\ i < j => ~Before(members[j], members[i])
                    /\ (/\ members[i].ingestion_index = members[j].ingestion_index
                        /\ StrLess(Lower(members[i].document_display),
                                   Lower(members[j].document_display))) => i < j

\* C9 witness: an entity whose first two occurrences have one ingestion_index
\* and different display names, and were given in the opposite order.
C9_Witness ==
    \E result \in Results :
        \E e \in Idx(result.canonical_entities) :
            LET members == result.canonical_entities[e].occurrences
            IN  /\ Len(members) >= 2
                /\ members[1].ingestion_index = members[2].ingestion_index
                /\ members[1].document_display # members[2].document_display
                /\ \E i, j \in Idx(collection.occurrences) :
                      /\ i < j
                      /\ collection.occurrences[i] = AsExtracted(members[2])
                      /\ collection.occurrences[j] = AsExtracted(members[1])

\* The orders a tuple of n elements can be given in.
Orders(n) == {order \in [1..n -> 1..n] : \A i, j \in 1..n : order[i] = order[j] => i = j}

\* The collection with its occurrences in another order.
Reordered(given, order) ==
    [given EXCEPT !.occurrences = [i \in Idx(given.occurrences) |->
                                      given.occurrences[order[i]]]]

DistinctIngestionIndexes(occurrences) ==
    \A i, j \in Idx(occurrences) :
        occurrences[i].ingestion_index = occurrences[j].ingestion_index => i = j

\* C10: when the occurrences given have pairwise distinct ingestion_index,
\* every call returned the occurrences and the canonical entities that
\* normalize_entities returns for every other order of the occurrences given;
\* and all the calls on one collection returned the same result.
C10_OrderIndependent ==
    /\ \A first, second \in Results : first = second
    /\ DistinctIngestionIndexes(collection.occurrences) =>
          \A result \in Results :
              \A order \in Orders(Len(collection.occurrences)) :
                  LET other == NormalizeEntities(Reordered(collection, order),
                                                 TheMap, language_hint)
                  IN  /\ other.occurrences = result.occurrences
                      /\ other.canonical_entities = result.canonical_entities

\* C10 witness: normalize_entities was called twice on three occurrences
\* with distinct ingestion_index that were not given in that order, and
\* returned two entities of one category, the one that sorts first having
\* arrived last.
C10_Witness ==
    /\ Len(normalized) = 2
    /\ Len(collection.occurrences) = 3
    /\ DistinctIngestionIndexes(collection.occurrences)
    /\ collection.occurrences[1].ingestion_index
           > collection.occurrences[3].ingestion_index
    /\ LET entities == normalized[2].canonical_entities
       IN  /\ Len(entities) = 2
           /\ entities[1].category = entities[2].category
           /\ Len(entities[2].occurrences) = 2
           /\ AsExtracted(entities[1].occurrences[1]) = collection.occurrences[3]

\* ------------------------------------------------------- the audit lines

\* The fixed pieces of the lines AliasMap.canonicalize writes.
CanonicalizerPieces ==
    {"Trimmed whitespace: ", " -> ", ".", "Casefolded ", "Applied locale override ",
     ": ", "Mapped alias ", "Confirmed canonical form ", "No alias mapping for ",
     "; using canonical key ", "Discarded empty entity after trimming."}

\* What canonicalize returned for the i-th occurrence given.
Emitted(i) ==
    Canonicalize(TheMap, collection.occurrences[i].raw_text,
                 ResolveLanguage(language_hint, collection.language_profile,
                                 collection.occurrences[i].source_language))

\* The number of lines the returned log holds before those of the i-th
\* occurrence given: the lines carried over, then for every earlier
\* occurrence its audit lines and, when it was dropped, the line saying so.
RECURSIVE LinesBefore(_)
LinesBefore(i) ==
    IF i = 1 THEN Len(collection.normalization_log)
    ELSE LinesBefore(i - 1) + Len(Emitted(i - 1).log)
             + (IF Emitted(i - 1).text = <<>> THEN 1 ELSE 0)

\* The quote characters of a line that open and that close a value of its
\* template: the ones next to a fixed piece.
Opening(line) ==
    {i \in Idx(line) : line[i] = "'" /\ i > 1 /\ line[i - 1] \in CanonicalizerPieces}
Closing(line) ==
    {i \in Idx(line) : line[i] = "'" /\ i < Len(line)
                       /\ line[i + 1] \in CanonicalizerPieces}

\* A redaction token: "<redacted:", eight hexadecimal digits, ">".
IsToken(span) ==
    /\ Len(span) = 10
    /\ span[1] = "<redacted:"
    /\ span[10] = ">"
    /\ \A i \in 2..9 : \E d \in Idx(HexDigits) : span[i] = HexDigits[d]

\* The line with every quoted value of its template replaced by the token
\* of the value.
RECURSIVE Redacted(_)
Redacted(line) ==
    IF Opening(line) = {} THEN line
    ELSE LET open == CHOOSE i \in Opening(line) : \A j \in Opening(line) : i <= j
             ends == {i \in Closing(line) : i > open}
             close == CHOOSE i \in ends : \A j \in ends : i <= j
         IN  SubSeq(line, 1, open)
             \o MaskValue(SubSeq(line, open + 1, close - 1))
             \o <<"'">>
             \o Redacted(SubSeq(line, close + 1, Len(line)))

\* The places of a line that are inside a token.
InToken(line) ==
    UNION {i..(i + 9) : i \in {j \in Idx(line) : j + 9 <= Len(line)
                                                  /\ IsToken(SubSeq(line, j, j + 9))}}

\* Outside its tokens the line holds nothing but fixed pieces and quotes.
OnlyPiecesAndTokens(line) ==
    \A i \in Idx(line) \ InToken(line) : line[i] = "'" \/ line[i] \in CanonicalizerPieces

\* C11: for every audit line canonicalize wrote for an occurrence given, the
\* line recorded in its place in the returned log is that line with every
\* quoted value replaced by its token, and holds no text outside tokens but
\* the fixed pieces of the template: no part of the raw text is left.
C11_AuditLinesRedacted ==
    \A result \in Results :
        \A i \in Idx(collection.occurrences) :
            \A k \in Idx(Emitted(i).log) :
                LET recorded == result.normalization_log[LinesBefore(i) + k]
                IN  /\ recorded = Redacted(Emitted(i).log[k])
                    /\ OnlyPiecesAndTokens(recorded)

\* The places of the quote characters of a line, in order.
QuotePlaces(line) ==
    LET quotes == {i \in Idx(line) : line[i] = "'"}
    IN  [k \in 1..Cardinality(quotes) |->
            CHOOSE i \in quotes : Cardinality({j \in quotes : j < i}) = k - 1]

\* Every single-quoted span of the line, the quotes paired from the left, is
\* a token.
EverySpanIsToken(line) ==
    LET at == QuotePlaces(line)
    IN  \A k \in 1..(Len(at) \div 2) :
            IsToken(SubSeq(line, at[2 * k - 1] + 1, at[2 * k] - 1))

\* C12: in every line of the returned normalization_log, the lines carried
\* over from the collection given included, every single-quoted span is a
\* redaction token.
C12_EveryReturnedLineRedacted ==
    \A result \in Results :
        \A n \in Idx(result.normalization_log) :
            EverySpanIsToken(result.normalization_log[n])

\* ------------------------------------------- what canonicalize returned

\* The calls of canonicalize made so far.
Calls == Elems(canonicalized)

\* The canonical display forms the sources declare, as keys of `aliases`
\* sections or as targets of locale overrides.
DeclaredCanonicals == {d.canonical : d \in CanonicalDecls(Sources)}

ConfirmationLine(canonical) ==
    <<"Confirmed canonical form ">> \o Quoted(canonical) \o <<".">>
IsMappingLine(line) == line[1] \in {"Mapped alias ", "Applied locale override "}

\* C13: canonicalize, given a canonical display form the sources declare and
\* any language hint, returns it unchanged, and its log holds the line that
\* confirms the canonical form and no line that reports a mapping.
C13_CanonicalFormsAreFixed ==
    \A call \in Calls :
        call.text \in DeclaredCanonicals =>
            /\ call.returned.text = call.text
            /\ \E n \in Idx(call.returned.log) :
                  call.returned.log[n] = ConfirmationLine(call.text)
            /\ \A n \in Idx(call.returned.log) : ~IsMappingLine(call.returned.log[n])

\* C14: in the alias map of a merge that succeeded every canonical display
\* form C the sources declare is its own alias, alias_lookup[casefold(C)] = C,
\* and canonicalize returns C for every case variant of C given with no
\* language hint.
C14_DeclaredCanonicalIsOwnAlias ==
    \A canonical \in DeclaredCanonicals :
        /\ Has(TheMap.alias_lookup, Casefold(canonical))
        /\ TheMap.alias_lookup[Casefold(canonical)] = canonical
        /\ \A call \in Calls :
              (call.language = None /\ Casefold(call.text) = Casefold(canonical))
                  => call.returned.text = canonical

\* The locale codes whose tables canonicalize consults for a language hint:
\* the lower-cased trimmed hint and its part before the first hyphen.
ConsultedLocales(language) ==
    IF ~language.some THEN {}
    ELSE LET code == Lower(Strip(language.s))
         IN  IF code = <<>> THEN {} ELSE {code, BeforeHyphen(code)}

\* The casefolded trimmed text of the call is in no consulted locale table
\* and not in the global alias table.
InNoTable(call) ==
    LET folded == Casefold(Strip(call.text))
    IN  /\ \A code \in ConsultedLocales(call.language) :
              Has(TheMap.locale_lookup, code) => ~Has(TheMap.locale_lookup[code], folded)
        /\ ~Has(TheMap.alias_lookup, folded)

NoMappingLine(trimmed) ==
    <<"No alias mapping for ">> \o Quoted(trimmed)
        \o <<"; using canonical key ">> \o Quoted(trimmed) \o <<".">>

ReturnedAsGiven(call) ==
    /\ call.returned.text = Strip(call.text)
    /\ call.returned.log # <<>>
    /\ call.returned.log[Len(call.returned.log)] = NoMappingLine(Strip(call.text))

\* C15 as stated: whenever the casefolded trimmed text is in no consulted
\* locale table and not in the global table, canonicalize returns the trimmed
\* text in its original casing and the last log line is the no-mapping line.
C15_AsStated ==
    \A call \in Calls : InNoTable(call) => ReturnedAsGiven(call)

\* C15: whenever the trimmed text is not empty and its casefolded form is in
\* no consulted locale table and not in the global table, canonicalize
\* returns the trimmed text in its original casing and the last log line is
\* the no-mapping line.
C15_UnmappedTextKeepsCasing ==
    \A call \in Calls :
        (Strip(call.text) # <<>> /\ InNoTable(call)) => ReturnedAsGiven(call)

\* C15 witness: "Rust", which differs from its casefolded form, was
\* canonicalized with the hint en-US against a map that has a table for "en"
\* and no entry for "rust", and came back as "Rust".
C15_Witness ==
    \E call \in Calls :
        /\ call.text = S_Rust
        /\ call.language = Some(S_enUS)
        /\ Has(TheMap.locale_lookup, S_en)
        /\ InNoTable(call)
        /\ call.returned.text = S_Rust
        /\ Casefold(S_Rust) # S_Rust

\* ------------------------------------------------- dropped occurrences

\* The input occurrences whose raw text is empty or only whitespace.
BlankInput ==
    {i \in Idx(collection.occurrences) :
        Strip(collection.occurrences[i].raw_text) = <<>>}

\* The language canonicalize is given for an occurrence of the input.
LanguageOf(occurrence) ==
    ResolveLanguage(language_hint, collection.language_profile,
                    occurrence.source_language)

SkippedLine == <<"Skipped occurrence with empty canonical text after normalization.">>

CollectionFields ==
    {"occurrences", "canonical_entities", "language_profile", "normalization_log"}

EntityKeyBelow(a, b) ==
    \/ StrLess(a.category, b.category)
    \/ /\ a.category = b.category
       /\ StrLess(Casefold(a.text), Casefold(b.text))

\* C17: the canonical entities of every result are in ascending order of
\* (category, casefolded text), each key strictly below the next, so no two
\* entities have the same key.
C17_EntitiesSortedAndDistinct ==
    \A result \in Results :
        \A e, f \in Idx(result.canonical_entities) :
            e < f => EntityKeyBelow(result.canonical_entities[e],
                                    result.canonical_entities[f])

\* C17 witness: a skill was met before a company of the same text, and the
\* result has the company first.
C17_Witness ==
    /\ collection.occurrences = <<OccPyTorch, OccPyTorchCompany>>
    /\ \E result \in Results :
          /\ Len(result.canonical_entities) = 2
          /\ result.canonical_entities[1].category = S_company
          /\ result.canonical_entities[2].category = S_skill

\* The input occurrences that canonicalize gives a non-empty canonical text.
KeptInput ==
    {i \in Idx(collection.occurrences) :
        Canonicalize(TheMap, collection.occurrences[i].raw_text,
                     LanguageOf(collection.occurrences[i])).text # <<>>}

\* How many of the places in `places` of seq hold x.
CountAt(x, seq, places) == Cardinality({i \in places : seq[i] = x})

\* C18: the occurrences of every result are the input occurrences with a
\* non-empty canonical text, each as often as the input has it and no other,
\* in an order in which ingestion_index never decreases.
C18_KeptOccurrencesInIngestionOrder ==
    \A result \in Results :
        /\ Len(result.occurrences) = Cardinality(KeptInput)
        /\ \A k \in Idx(result.occurrences) :
              /\ result.occurrences[k].canonical_text # <<>>
              /\ \E i \in KeptInput :
                    /\ collection.occurrences[i] = AsExtracted(result.occurrences[k])
                    /\ Count(result.occurrences[k], result.occurrences)
                           = CountAt(collection.occurrences[i], collection.occurrences,
                                     KeptInput)
        /\ \A k, l \in Idx(result.occurrences) :
              k < l => result.occurrences[k].ingestion_index
                           <= result.occurrences[l].ingestion_index

\* C18 witness: a blank occurrence and two others were given, the later
\* ingested one first; the result has the two, the earlier ingested one first.
C18_Witness ==
    /\ collection.occurrences = <<OccBlank, OccPytorchJob, OccPyTorch>>
    /\ \E result \in Results :
          /\ Len(result.occurrences) = 2
          /\ result.occurrences[1].ingestion_index = 0
          /\ result.occurrences[2].ingestion_index = 1

\* --------------------------------------------- what normalization changes

\* The fields of an occurrence other than canonical_text.
OtherFields ==
    {"raw_text", "category", "confidence", "span", "document_role",
     "document_display", "source_language", "context_snippet", "ingestion_index"}

\* `after` is `before` with the canonical text canonicalize returns for it.
IsNormalized(before, after) ==
    /\ DOMAIN after = OtherFields \cup {"canonical_text"}
    /\ \A field \in OtherFields : after[field] = before[field]
    /\ after.canonical_text =
           Canonicalize(TheMap, before.raw_text, LanguageOf(before)).text

Decimal(n) ==
    LET digit(d) == <<"0", "1", "2", "3", "4", "5", "6", "7", "8", "9">>[d + 1]
    IN  IF n < 10 THEN <<digit(n)>> ELSE <<digit(n \div 10), digit(n % 10)>>

\* The distinct (document role, document display) pairs of a result's
\* occurrences.
DocumentsOf(result) ==
    {<<result.occurrences[k].document_role, result.occurrences[k].document_display>> :
        k \in Idx(result.occurrences)}

SummaryLine(n, m, d) ==
    <<"Normalized ">> \o Decimal(n) \o <<" occurrences to ">> \o Decimal(m)
        \o <<" canonical entities across ">> \o Decimal(d) \o <<" documents.">>

\* C20: the last line of every result's log is the summary line with the
\* number of input occurrences, dropped ones included, the number of entities
\* returned, and the number of distinct (role, display) pairs among the
\* returned occurrences.
C20_SummaryLineCounts ==
    \A result \in Results :
        /\ result.normalization_log # <<>>
        /\ result.normalization_log[Len(result.normalization_log)] =
               SummaryLine(Len(collection.occurrences),
                           Len(result.canonical_entities),
                           Cardinality(DocumentsOf(result)))

\* C20 witness: of three occurrences one was dropped and the other two, of
\* the same document, fell into one entity; the log ends with the summary of
\* 3 occurrences, 1 entity and 1 document.
C20_Witness ==
    /\ collection.occurrences = <<OccBlank, OccPyTorch, OccPytorchResume>>
    /\ \E result \in Results :
          /\ Len(result.occurrences) = 2
          /\ result.normalization_log[Len(result.normalization_log)] =
                <<"Normalized ", "3", " occurrences to ", "1",
                  " canonical entities across ", "1", " documents.">>

\* ------------------------------------------------ the shapes of sources

\* The document of a source that can be read has one of the shapes that are
\* not the documented one: a root that is a list or a scalar, a section that
\* is no mapping, a canonical, alias or locale that is no string or is empty
\* after trimming, or an alias value that is neither absent nor a list.
MalformedShape(src) ==
    /\ src.file = "ok"
    /\ \/ src.root \in {"falsy", "other"}
       \/ /\ src.root = "mapping"
          /\ \/ src.aliases.t \notin {"none", "map"}
             \/ src.locale_overrides.t \notin {"none", "map"}
             \/ \E e \in Elems(AliasEntriesOf(src)) :
                   \/ ~IsText(e.canonical)
                   \/ e.aliases.t \notin {"none", "list"}
                   \/ \E a \in Elems(ItemsOf(e)) : ~IsText(a)
             \/ \E l \in Elems(LocaleEntriesOf(src)) :
                   \/ ~IsText(l.locale)
                   \/ l.mapping.t # "map"
                   \/ \E q \in Elems(PairsOf(l)) :
                         ~IsText(q.alias) \/ ~IsText(q.canonical)

\* C24: a merge whose list holds a source of a malformed shape raises; a
\* merge that returns an AliasMap had only sources whose root is a mapping
\* (or an empty document) with sections of the documented shapes.
C24_MalformedShapeIsFatal ==
    Finished =>
        /\ (\E i \in Idx(Sources) : MalformedShape(Sources[i])) => Raised
        /\ Returned => \A i \in Idx(Sources) : WellFormed(Sources[i])

\* ------------------------------------------------- the order of sources

\* The orders of the places 1..n that keep place 1, the default source.
TailOrders(n) ==
    {f \in [1..n -> 1..n] : f[1] = 1 /\ \A i, j \in 1..n : f[i] = f[j] => i = j}

\* C29: for every order of the caller's sources load_alias_map does what it
\* did for the order given: it fails for every order or for none, and when it
\* returns, canonical_to_aliases, alias_lookup and locale_lookup are the same
\* for every order.
C29_MergeOrderIndependent ==
    Finished =>
        \A f \in TailOrders(Len(Sources)) :
            LET other == LoadAliasMap([i \in Idx(Sources) |-> Sources[f[i]]])
            IN  /\ Raised <=> other.returned = <<>>
                /\ Returned => SameTables(other.returned[1], TheMap)

\* C29 witness: after the default source the caller's sources python.yaml
\* and en-data-systems.yaml were merged, in that order, and the merge
\* returned a map with the declarations of both.
C29_Witness ==
    /\ Returned
    /\ candidate_paths = <<"empty.yaml", "python.yaml", "en-data-systems.yaml">>
    /\ TheMap.alias_lookup[S_py] = S_Python
    /\ TheMap.alias_lookup[S_ds] = S_DataSystems

\* ------------------------------------------------ the tables consulted

\* The part of a locale code before its first hyphen.
BaseOf(code) ==
    LET hyphens == {i \in Idx(code) : code[i] = "-"}
    IN  SubSeq(code, 1, (CHOOSE i \in hyphens : \A j \in hyphens : i <= j) - 1)

\* The locale codes of a hint in the order the claim gives: the trimmed,
\* lower-cased hint, then its base when it has a hyphen; none for None and for
\* a hint that is empty after trimming.
CodesInOrder(language) ==
    LET code == IF language.some THEN Lower(Strip(language.s)) ELSE <<>>
    IN  IF code = <<>> THEN <<>>
        ELSE IF \E i \in Idx(code) : code[i] = "-" THEN <<code, BaseOf(code)>>
        ELSE <<code>>

TableHas(code, folded) ==
    Has(TheMap.locale_lookup, code) /\ Has(TheMap.locale_lookup[code], folded)

OverrideLine(code, trimmed, canonical) ==
    <<"Applied locale override ">> \o Quoted(code) \o <<": ">> \o Quoted(trimmed)
        \o <<" -> ">> \o Quoted(canonical) \o <<".">>

\* The call was decided by the table of `code`.
DecidedByTable(call, code) ==
    LET trimmed == Strip(call.text)
        canonical == TheMap.locale_lookup[code][Casefold(trimmed)]
    IN  /\ call.returned.text = canonical
        /\ call.returned.log[Len(call.returned.log)]
               = OverrideLine(code, trimmed, canonical)

\* The call was decided without a locale table: by the global table when it
\* has the casefolded text, else by the text itself.
DecidedGlobally(call) ==
    LET trimmed == Strip(call.text)
        folded == Casefold(trimmed)
    IN  /\ \A n \in Idx(call.returned.log) :
              call.returned.log[n][1] # "Applied locale override "
        /\ call.returned.text =
              IF trimmed # <<>> /\ Has(TheMap.alias_lookup, folded)
              THEN TheMap.alias_lookup[folded] ELSE trimmed

\* C23: canonicalize is decided by the first table, in the order [trimmed
\* lower-cased hint, its part before the first hyphen], that has the
\* casefolded trimmed text, and reports that table in its last log line;
\* when no such table has it, and for a None or empty hint, no locale override
\* is applied and the global table decides.
C23_LocaleTablesInOrder ==
    \A call \in Calls :
        LET codes == CodesInOrder(call.language)
            having == {i \in Idx(codes) : TableHas(codes[i], Casefold(Strip(call.text)))}
        IN  IF having # {}
            THEN DecidedByTable(call, codes[CHOOSE i \in having : \A j \in having : i <= j])
            ELSE DecidedGlobally(call)

\* C23 witness: "py" was canonicalized with the hint " en-US " against a map
\* whose tables for en-us and for en both have it; the table of en-us decided.
C23_Witness ==
    \E call \in Calls :
        /\ call.text = S_py
        /\ call.language = Some(S_enUSPadded)
        /\ TableHas(S_enus, S_py)
        /\ TableHas(S_en, S_py)
        /\ DecidedByTable(call, S_enus)

\* ------------------------------------------------ canonicalizing twice

\* C30: canonicalizing the text canonicalize returned, with the same hint,
\* returns that text again.
C30_CanonicalizeIdempotent ==
    \A call \in Calls :
        Canonicalize(TheMap, call.returned.text, call.language).text
            = call.returned.text

\* C30 witness: "ds" was canonicalized with the hint EN by the override of
\* the table en to "Data Systems", which is not "ds" and which the same call
\* returns for "Data Systems".
C30_Witness ==
    \E call \in Calls :
        /\ call.text = S_ds
        /\ call.language = Some(S_EN)
        /\ TableHas(S_en, S_ds)
        /\ call.returned.text = S_DataSystems
        /\ Canonicalize(TheMap, S_DataSystems, Some(S_EN)).text = S_DataSystems

\* ---------------------------------------------------- the language hint

\* An entity without the source languages of its occurrences.
WithoutSourceLanguage(entity) ==
    [entity EXCEPT !.occurrences =
        [k \in DOMAIN @ |-> [@[k] EXCEPT !.source_language = None]]]

\* The canonical entities normalize_entities builds with the map for `text`
\* and "pytorch", found in documents of the language `source_language`, given
\* the hint and the profile; the source languages left out.
EntitiesFor(text, hint, profile, source_language) ==
    LET given == Collection(
            <<Occurrence(text, S_skill, 50, <<0, 1>>, S_resume, S_ResumeDisplay,
                         source_language, S_context, 0),
              Occurrence(S_pytorch, S_skill, 74, <<4, 11>>, S_job, S_jobDisplay,
                         source_language, S_context, 1)>>,
            <<>>, profile, <<>>)
        entities == NormalizeEntities(given, TheMap, hint).canonical_entities
    IN  [e \in DOMAIN entities |-> WithoutSourceLanguage(entities[e])]

\* The hint, the profile and the source language tried against none of them.
LanguageVariants ==
    {<<Some(S_enUS), ProfileNone, None>>, <<None, ProfileStr(S_fr), None>>,
     <<None, ProfileNone, Some(S_en)>>, <<Some(S_enUS), ProfileStr(S_fr), Some(S_en)>>}

EntitiesAlways(text, entities) ==
    \A variant \in LanguageVariants :
        EntitiesFor(text, variant[1], variant[2], variant[3]) = entities

\* C28: every entry of every locale table of the map is an entry of the
\* global table; canonicalize returns for a text the same canonical text
\* under every hint; and the canonical entities normalize_entities builds are
\* the same for every language hint, language profile and source language.
C28_LanguageHintIndependent ==
    /\ \A locale \in DOMAIN TheMap.locale_lookup :
          \A key \in DOMAIN TheMap.locale_lookup[locale] :
              /\ Has(TheMap.alias_lookup, key)
              /\ TheMap.alias_lookup[key] = TheMap.locale_lookup[locale][key]
    /\ \A call \in Calls :
          /\ \A language \in LanguageHints :
                Canonicalize(TheMap, call.text, language).text = call.returned.text
          /\ call.language = None =>
                EntitiesAlways(call.text, EntitiesFor(call.text, None, ProfileNone, None))

\* C28 witness: "ds" was canonicalized with the hint EN by the override of
\* the table en; with no hint the global table gives the same text, with
\* another log.
C28_Witness ==
    \E call \in Calls :
        /\ call.text = S_ds
        /\ call.language = Some(S_EN)
        /\ TableHas(S_en, S_ds)
        /\ call.returned.log[Len(call.returned.log)][1] = "Applied locale override "
        /\ Canonicalize(TheMap, S_ds, None).text = call.returned.text
        /\ Canonicalize(TheMap, S_ds, None).log # call.returned.log

\* ------------------------------------------------------- earlier calls

\* C25: whatever calls of load_alias_map came before, a call starts with
\* empty accumulators and ends with what load_alias_map gives for its source
\* list as a first call: the same AliasMap or the same failure.
C25_NoStateBetweenCalls ==
    /\ (pc = "merging" /\ acc.resolved_sources = <<>>) => acc = EmptyAcc
    /\ Finished => outcome = LoadAliasMap(Sources)

\* C25 witness: a call that returned a map declaring Python and a call that
\* failed came first; the third call, whose source spells that canonical
\* PYTHON, returned.
C25_Witness ==
    /\ Len(history) = 2
    /\ history[1].candidate_paths = <<"python.yaml">>
    /\ history[1].outcome.returned # <<>>
    /\ history[2].outcome.returned = <<>>
    /\ candidate_paths = <<"python-upper.yaml">>
    /\ Returned
    /\ TheMap.alias_lookup[S_python] = S_PYTHON

\* ------------------------------------------------- the language passed

\* The candidate a language profile gives: the profile when it is a string,
\* else the first string under primary, language, code; none otherwise.
ProfileCandidate(profile) ==
    LET values == <<profile.primary, profile.language, profile.code>>
        strings == {i \in 1..3 : values[i].t = "str"}
    IN  IF profile.t = "str" THEN Some(profile.s)
        ELSE IF profile.t = "none" \/ strings = {} THEN None
        ELSE Some(values[CHOOSE i \in strings : \A j \in strings : i <= j].s)

\* The first of the three candidates that is not empty after trimming,
\* trimmed and lower-cased; None when there is none.
FirstUsable(candidates) ==
    LET usable == {i \in 1..3 : candidates[i].some /\ Strip(candidates[i].s) # <<>>}
    IN  IF usable = {} THEN None
        ELSE Some(Lower(Strip(candidates[CHOOSE i \in usable :
                                             \A j \in usable : i <= j].s)))

\* C22: the language canonicalize is called with is the first of the hint,
\* the candidate of the language profile and the occurrence's source language
\* that is not empty after trimming, trimmed and lower-cased, and None when
\* none of them is.
C22_LanguageResolutionOrder ==
    \A n \in Idx(resolved) :
        canonicalized[n].language =
            FirstUsable(<<resolved[n].hint, ProfileCandidate(resolved[n].profile),
                          resolved[n].entity_language>>)

\* C22 witness: the hint was blank and the profile a mapping whose primary is
\* a blank string and whose language is "fr": the language passed is that of
\* the occurrence, "EN" lower-cased, and the override of the table en applied.
C22_Witness ==
    /\ resolved = <<[hint |-> Some(S_blank),
                     profile |-> ProfileMapping(StringValue(S_blank),
                                                StringValue(S_fr), Missing),
                     entity_language |-> Some(S_EN)]>>
    /\ canonicalized[1].language = Some(S_en)
    /\ canonicalized[1].returned.text = S_DataSystems

\* ----------------------------------------- the occurrences a run merges

\* The run has built the collection it hands to normalize_entities.
Merged == pc \in {"loading aliases", "normalizing", "returning"} \/ normalized # <<>>

\* The occurrences places first..last of the collection are those extracted
\* for a document, in the order of the indices the extraction gave them,
\* each changed in its ingestion_index only.
DocumentAt(extracted, first) ==
    \E order \in Orders(Len(extracted)) :
        /\ \A k, l \in Idx(extracted) :
              k < l => extracted[order[k]].ingestion_index
                           <= extracted[order[l]].ingestion_index
        /\ \A k \in Idx(extracted) :
              collection.occurrences[first + k - 1] =
                  [extracted[order[k]] EXCEPT !.ingestion_index = first + k - 2]

\* C21: the occurrences handed to normalize_entities are those of the resume
\* followed by those of the job description, each document's in the order of
\* its per-document ingestion_index, and their ingestion_index values are
\* 0..n-1 in order, whatever indices the extractions assigned.
C21_MergedByDocumentAndReindexed ==
    Merged =>
        LET resume == run[1].per_document[1].occurrences
            job == run[1].per_document[2].occurrences
        IN  /\ Len(collection.occurrences) = Len(resume) + Len(job)
            /\ \A i \in Idx(collection.occurrences) :
                  collection.occurrences[i].ingestion_index = i - 1
            /\ DocumentAt(resume, 1)
            /\ DocumentAt(job, Len(resume) + 1)

\* C21 witness: the resume's extraction gave indices 1 and 0 in that order
\* and the job description's gave 3 and 1; the collection normalized holds
\* the four occurrences with the indices 0, 1, 2, 3, the resume's first and
\* each document's in the order of the indices it came with.
C21_Witness ==
    /\ normalized # <<>>
    /\ run[1].per_document[1].occurrences
           = <<InRole(OccPyTorchPadded, S_resume), InRole(OccPyTorch, S_resume)>>
    /\ run[1].per_document[2].occurrences
           = <<InRole(OccPy, S_job_description), InRole(OccPytorchJob, S_job_description)>>
    /\ [i \in 1..4 |-> collection.occurrences[i].raw_text]
           = <<S_PyTorch, S_PyTorchPadded, S_pytorch, S_py>>
    /\ [i \in 1..4 |-> collection.occurrences[i].ingestion_index] = <<0, 1, 2, 3>>

\* ------------------------------------------------- the outcome of a run

\* The exit code stated for a domain error of a type.
StatedExitCode(type) ==
    CASE type = "InputValidationError" -> 2
      [] type = "PdfExtractionError" -> 3
      [] type = "NERModelError" -> 4
      [] type = "LLMRequestError" -> 5
      [] type = "TimeoutExceededError" -> 6
      [] OTHER -> 1

\* A failure outcome: no report, and the exit code given.
FailureWith(returned, exit_code) ==
    /\ Len(returned) = 1
    /\ returned[1].status = "failure"
    /\ returned[1].report = <<>>
    /\ returned[1].exit_code = exit_code

\* The run has ended after load_alias_map was called.
EndedPastAliases == pc = "ended" /\ outcome # NoOutcome

\* One of the alias sources is malformed, or two declarations conflict.
MalformedOrConflicting ==
    \/ \E i \in Idx(Sources) : MalformedShape(Sources[i])
    \/ HasConflict(AliasDecls(Sources))
    \/ HasConflict(CanonicalDecls(Sources))

\* The same, without the sources whose root is a falsy value that is no
\* mapping.
RejectedMalformedOrConflicting ==
    \/ \E i \in Idx(Sources) : MalformedShape(Sources[i]) /\ Sources[i].root # "falsy"
    \/ HasConflict(AliasDecls(Sources))
    \/ HasConflict(CanonicalDecls(Sources))

\* Whatever is raised inside the try, the except clauses return a failure
\* outcome with no report, with the stated exit code for a domain error.
EveryExceptionMapped ==
    \A type \in ExceptionTypes :
        LET returned == Except(RaisedError(type, <<>>, <<>>))
        IN  /\ Len(returned) = 1
            /\ returned[1].status = "failure" /\ returned[1].report = <<>>
            /\ type \in FiltraErrorTypes => returned[1].exit_code = StatedExitCode(type)

\* A run that has ended has returned an outcome: a failure with the stated
\* exit code when something was raised, and a report whenever it is SUCCESS.
EndedWithOutcome ==
    pc = "ended" =>
        /\ Len(run[1].returned) = 1
        /\ \A i \in Idx(run[1].raised) :
              /\ FailureWith(run[1].returned, run[1].returned[1].exit_code)
              /\ run[1].raised[i].type \in FiltraErrorTypes =>
                    run[1].returned[1].exit_code = StatedExitCode(run[1].raised[i].type)
        /\ run[1].returned[1].exit_code = SUCCESS =>
              /\ run[1].returned[1].status = "success"
              /\ Len(run[1].returned[1].report) = 1

\* C26: run_pipeline always returns an ExecutionOutcome; an exception raised
\* inside it gives a failure outcome with no report, with the exit code of
\* its type when it is a domain error (2, 3, 4, 5, 6 for the five
\* subclasses, 1 for anything else); a run whose alias sources are malformed
\* or conflicting ends with INVALID_INPUT and no report; an outcome with
\* SUCCESS carries a report.
C26_RunNeverPropagates ==
    /\ EveryExceptionMapped
    /\ EndedWithOutcome
    /\ (EndedPastAliases /\ MalformedOrConflicting) =>
          FailureWith(run[1].returned, INVALID_INPUT)

\* What holds of the run as it is: the same, for the alias sources other
\* than those whose root is a falsy value that is no mapping.
RunOutcomesExceptFalsyRoots ==
    /\ EveryExceptionMapped
    /\ EndedWithOutcome
    /\ (EndedPastAliases /\ RejectedMalformedOrConflicting) =>
          FailureWith(run[1].returned, INVALID_INPUT)

\* --------------------------------------------------- the health check

\* What the check has sent, got, returned and raised.
Requests == Len(health[1].replies)
ReplyAt(i) == health[1].replies[i]
HealthEnded == pc = "ended"
RaisedType(type) ==
    /\ HealthEnded
    /\ health[1].returned = <<>>
    /\ Len(health[1].raised) = 1 /\ health[1].raised[1].type = type
ReturnedHealth ==
    /\ HealthEnded
    /\ Len(health[1].returned) = 1 /\ health[1].raised = <<>>
LastRequest(i) == HealthEnded /\ i = Requests

\* A reply that is a response whose request id is in neither the header nor a
\* JSON object: the body is JSON, and is a list or null.
NonObjectBody(reply) ==
    /\ reply.t = "response" /\ reply.status_code < 400
    /\ ~reply.request_id.some
    /\ reply.body.t \in {"list", "null"}

\* The rules of the check for each request and its reply.
HealthRules ==
    /\ Requests <= 2
    /\ Requests = 2 => ReplyAt(1).t = "ConnectError"
    /\ \A i \in 1..Requests :
          /\ ReplyAt(i).t = "TimeoutException" =>
                LastRequest(i) /\ RaisedType("TimeoutExceededError")
          /\ (ReplyAt(i).t = "response" /\ ReplyAt(i).status_code >= 400) =>
                LastRequest(i) /\ RaisedType("LLMRequestError")
          /\ (i = 2 /\ ReplyAt(i).t = "ConnectError") =>
                LastRequest(i) /\ RaisedType("LLMRequestError")
    /\ (~health[1].api_key.some \/ health[1].api_key.s = <<>>) =>
          /\ Requests = 0
          /\ pc # "reading key" => RaisedType("LLMRequestError")

\* C27: the check sends at most two requests, the second only after a
\* transport error that is no timeout; a timeout, a status of 400 or more, a
\* transport error on the second attempt and a missing key end it at once
\* with the stated domain error; and it always ends, with an LLMHealth or
\* with an LLMRequestError or a TimeoutExceededError.
C27_HealthCheckTerminates ==
    /\ [](HealthRules
          /\ (HealthEnded =>
                \/ ReturnedHealth
                \/ RaisedType("LLMRequestError")
                \/ RaisedType("TimeoutExceededError")))
    /\ <>HealthEnded

\* What holds of the check as it is: the same, with the AttributeError a
\* response without the header and with a JSON body that is no object ends
\* the call with.
HealthCheckExceptNonObjectBodies ==
    /\ [](HealthRules
          /\ (HealthEnded =>
                \/ ReturnedHealth
                \/ RaisedType("LLMRequestError")
                \/ RaisedType("TimeoutExceededError")
                \/ (RaisedType("AttributeError") /\ NonObjectBody(ReplyAt(Requests)))))
    /\ [](\A i \in 1..Requests : NonObjectBody(ReplyAt(i)) => RaisedType("AttributeError"))
    /\ <>HealthEnded

====
